---- MODULE Spec2Model ----
(***************************************************************************)
(* Model of the GitHub coverage reporter: configuration resolution         *)
(* (index.js constructor, ConfigManager, GitHubHelper, S3Helper), the      *)
(* comparison engine (CoverageReporter) and the orchestrator's run with    *)
(* its History Store read-modify-write.                                    *)
(***************************************************************************)
EXTENDS Integers, Sequences, FiniteSets, TLC

VARIABLES
  options,      \* the options object passed to new GitHubCoverageReporter
  configFile,   \* what is on disk at the config path
  env,          \* process.env
  reporter,     \* the constructed GitHubCoverageReporter (Undef before)
  cr,           \* a CoverageReporter instance of the engine specifications
  call,         \* the last direct call made on a pure function
  ret,          \* what that call returned
  files,        \* the file system: what is at each coverage report path
  store,        \* the History Store: the JSON text under the history key
  inp,          \* per run: the reporter's options, the run options, the branch
  pc,           \* per run: the call site the run is at
  loc,          \* per run: the local variables of run
  log           \* per run: the remote calls issued so far

runVars == <<store, inp, pc, loc, log>>

vars == <<options, configFile, env, reporter, cr, call, ret, files, runVars>>

----------------------------------------------------------------------------
(* JavaScript values.  Primitives are tagged records; objects are records  *)
(* without a "t" field, a missing property reads as Undef.                 *)

Undef == [t |-> "undefined"]
Null == [t |-> "null"]
Num(n) == [t |-> "number", v |-> n]
Str(s) == [t |-> "string", v |-> s]
Bool(b) == [t |-> "boolean", v |-> b]

IsPrim(x) == "t" \in DOMAIN x

\* JavaScript truthiness, as used by every `a || b` and `if (a)` of the code
Truthy(x) ==
  IF ~IsPrim(x) THEN TRUE
  ELSE CASE x.t = "undefined" -> FALSE
         [] x.t = "null" -> FALSE
         [] x.t = "number" -> x.v # 0
         [] x.t = "string" -> x.v # ""
         [] x.t = "boolean" -> x.v

\* a || b
Or(a, b) == IF Truthy(a) THEN a ELSE b

\* [null, undefined].includes(x)
IsNullish(x) == x \in {Null, Undef}

----------------------------------------------------------------------------
(* Shapes of the objects of the configuration.                             *)

GhKeys == {"owner", "repo", "currentBranch", "targetBranch", "defaultTargetBranch"}
S3Keys == {"bucketName", "folderName", "fileName", "region"}

\* {} seen through a fixed key set
EmptyObj(keys) == [k \in keys |-> Undef]

\* { ...base, k: v }
With(o, k, v) == [o EXCEPT ![k] = v]


\* obj[k], Undef when obj is not an object
Prop(obj, k) == IF IsPrim(obj) THEN Undef ELSE obj[k]

----------------------------------------------------------------------------
(* ConfigManager                                                           *)

\* a file system without coverage reports
NoFiles == [p \in {} |-> [t |-> "ENOENT"]]

\* the two ways the read of the config file fails
Missing == [t |-> "ENOENT"]
Unparsable == [t |-> "SyntaxError"]

\* loadConfig: the parsed object, or Null for the throw the constructor catches
loadConfig(file) ==
  IF file \in {Missing, Unparsable} THEN Null ELSE file

getMaxCoverageDiff(config) ==
  IF ~Truthy(config) \/ ~Truthy(config.config) \/ IsNullish(config.config.maxCoverageDiff)
  THEN Num(0)
  ELSE config.config.maxCoverageDiff

DefaultFeatures ==
  [addComments |-> Bool(TRUE), setStatusChecks |-> Bool(TRUE), storeInS3 |-> Bool(TRUE)]

getFeatures(config) ==
  IF ~Truthy(config) \/ ~Truthy(config.config) \/ ~Truthy(config.config.features)
  THEN DefaultFeatures
  ELSE config.config.features

getS3Config_TopLevelFirst(config) ==
  LET base == IF Truthy(config) /\ Truthy(config.s3) THEN config.s3
              ELSE IF Truthy(config) /\ Truthy(config.config) /\ Truthy(config.config.s3)
                   THEN config.config.s3
                   ELSE EmptyObj(S3Keys)
      s1 == IF Truthy(config) /\ Truthy(config.fileName)
            THEN With(base, "fileName", config.fileName) ELSE base
      s2 == IF Truthy(config) /\ Truthy(config.folderName)
            THEN With(s1, "folderName", config.folderName) ELSE s1
      s3 == IF ~Truthy(s2.fileName) THEN With(s2, "fileName", Str("coverage.json")) ELSE s2
  IN  IF ~Truthy(s3.folderName)
      THEN With(s3, "folderName", Str("github-coverage-reporter")) ELSE s3

getS3Config(config) ==
  LET base == IF Truthy(config) /\ Truthy(config.s3) THEN config.s3
              ELSE IF Truthy(config) /\ Truthy(config.config) /\ Truthy(config.config.s3)
                   THEN config.config.s3
                   ELSE EmptyObj(S3Keys)
      s1 == IF ~Truthy(base.fileName) /\ Truthy(config) /\ Truthy(config.fileName)
            THEN With(base, "fileName", config.fileName) ELSE base
      s2 == IF ~Truthy(s1.folderName) /\ Truthy(config) /\ Truthy(config.folderName)
            THEN With(s1, "folderName", config.folderName) ELSE s1
      s3 == IF ~Truthy(s2.fileName) THEN With(s2, "fileName", Str("coverage.json")) ELSE s2
  IN  IF ~Truthy(s3.folderName)
      THEN With(s3, "folderName", Str("github-coverage-reporter")) ELSE s3

getGitHubConfig(config) ==
  LET base == IF Truthy(config) /\ Truthy(config.github) THEN config.github
              ELSE IF Truthy(config) /\ Truthy(config.config) /\ Truthy(config.config.github)
                   THEN config.config.github
                   ELSE EmptyObj(GhKeys)
      g1 == IF ~Truthy(base.owner) /\ Truthy(config) /\ Truthy(config.owner)
            THEN With(base, "owner", config.owner) ELSE base
      g2 == IF ~Truthy(g1.repo) /\ Truthy(config) /\ Truthy(config.repo)
            THEN With(g1, "repo", config.repo) ELSE g1
  IN  IF ~Truthy(g2.defaultTargetBranch) /\ Truthy(config) /\ Truthy(config.defaultTargetBranch)
      THEN With(g2, "defaultTargetBranch", config.defaultTargetBranch) ELSE g2

----------------------------------------------------------------------------
(* index.js: mergeWithPriority and the helpers' constructors               *)

\* result = {...first}; every defined, non-null, non-empty second[key] overwrites
mergeWithPriority(first, second) ==
  [k \in DOMAIN first |->
     IF second[k] # Undef /\ second[k] # Null /\ second[k] # Str("")
     THEN second[k] ELSE first[k]]

GitHubHelperNew(config) ==
  [owner |-> Or(Or(config.owner, env.GITHUB_OWNER), env.OWNER),
   repo |-> Or(config.repo, env.GITHUB_REPO),
   currentBranch |-> Or(config.currentBranch, env.GITHUB_CURR_BRANCH),
   targetBranch |-> Or(Or(config.targetBranch, env.GITHUB_TARGET_BRANCH),
                       config.defaultTargetBranch)]

S3HelperNew(config) ==
  [bucketName |-> Or(Or(config.bucketName, env.AWS_S3_BUCKET), env.BUCKET_NAME),
   region |-> Or(config.region, env.AWS_REGION),
   folderName |-> Or(config.folderName, env.FOLDER_NAME)]


----------------------------------------------------------------------------
(* CoverageReporter                                                        *)

DefaultBackendThreshold == 90
DefaultFrontendThreshold == 95
DefaultLambdaThreshold == 80
FallbackThreshold == 80

NoThresholds == [k \in {} |-> Undef]

\* obj[k] of an object kept with its own key set
Lookup(obj, k) == IF k \in DOMAIN obj THEN obj[k] ELSE Undef

CoverageReporterNew_MaxDiffOrOne(o) ==
  LET base == [backend |-> Or(o.backendThreshold, Num(DefaultBackendThreshold)),
               frontend |-> Or(o.frontendThreshold, Num(DefaultFrontendThreshold)),
               lambda |-> Or(o.lambdaThreshold, Num(DefaultLambdaThreshold))]
      custom == IF IsPrim(o.customThresholds) THEN NoThresholds ELSE o.customThresholds
  IN  [thresholds |-> [k \in DOMAIN base \cup DOMAIN custom |->
                         IF k \in DOMAIN custom THEN custom[k] ELSE base[k]],
       maxDiff |-> Or(o.maxDiff, Num(1))]

\* constructor: {backend, frontend, lambda, ...customThresholds} and maxDiff
CoverageReporterNew(o) ==
  LET base == [backend |-> Or(o.backendThreshold, Num(DefaultBackendThreshold)),
               frontend |-> Or(o.frontendThreshold, Num(DefaultFrontendThreshold)),
               lambda |-> Or(o.lambdaThreshold, Num(DefaultLambdaThreshold))]
      custom == IF IsPrim(o.customThresholds) THEN NoThresholds ELSE o.customThresholds
  IN  [thresholds |-> [k \in DOMAIN base \cup DOMAIN custom |->
                         IF k \in DOMAIN custom THEN custom[k] ELSE base[k]],
       maxDiff |-> IF IsNullish(o.maxDiff) THEN Num(0) ELSE o.maxDiff]

\* the template literals, kept as the sequence of their pieces
StatusDescription(threshold, coverage) ==
  <<"threshold: ", threshold, "% - current: ", coverage, "%">>

StatusContext(coverageType) == <<"code-coverage-", coverageType>>

generateStatusChecks(r, coverage, coverageType) ==
  LET threshold == Or(Lookup(r.thresholds, coverageType), Num(FallbackThreshold)).v
  IN  [pass |-> coverage >= threshold,
       description |-> StatusDescription(threshold, coverage),
       context |-> StatusContext(coverageType)]

DiffDescription(previousCoverage, currentCoverage) ==
  IF currentCoverage = previousCoverage
  THEN <<"stays the same: ", previousCoverage, "% ~ ", currentCoverage, "%">>
  ELSE IF currentCoverage > previousCoverage
       THEN <<"went up from ", previousCoverage, "% to ", currentCoverage, "%">>
       ELSE <<"decreased from ", previousCoverage, "% to ", currentCoverage, "%">>

DiffContext(coverageType) == <<"code-coverage-", coverageType, "-delta">>

generateDiffStatusCheck_StrictLess(r, previousCoverage, currentCoverage, coverageType) ==
  IF previousCoverage = 0
  THEN Null
  ELSE [pass |-> (previousCoverage - currentCoverage) < r.maxDiff.v,
        description |-> DiffDescription(previousCoverage, currentCoverage),
        context |-> DiffContext(coverageType)]

generateDiffStatusCheck_NoBaselineGuard(r, previousCoverage, currentCoverage, coverageType) ==
  [pass |-> (previousCoverage - currentCoverage) <= r.maxDiff.v,
   description |-> DiffDescription(previousCoverage, currentCoverage),
   context |-> DiffContext(coverageType)]

generateDiffStatusCheck(r, previousCoverage, currentCoverage, coverageType) ==
  IF previousCoverage = 0
  THEN Null
  ELSE [pass |-> (previousCoverage - currentCoverage) <= r.maxDiff.v,
        description |-> DiffDescription(previousCoverage, currentCoverage),
        context |-> DiffContext(coverageType)]


----------------------------------------------------------------------------
(* index.js: the GitHubCoverageReporter constructor                        *)

FeatureKeys == {"addComments", "setStatusChecks", "storeInS3"}

RECURSIVE ThresholdsOfTypes(_)
\* types.forEach(type => thresholds[type.name] = type.threshold)
ThresholdsOfTypes(types) ==
  IF types = <<>> THEN NoThresholds
  ELSE LET rest == ThresholdsOfTypes(SubSeq(types, 1, Len(types) - 1))
           last == types[Len(types)]
       IN  [k \in DOMAIN rest \cup {last.name} |->
              IF k = last.name THEN last.threshold ELSE rest[k]]

\* the coverage options handed to new CoverageReporter
CoverageOptions(opts, config) ==
  LET given == IF Truthy(opts.coverage) THEN opts.coverage
               ELSE [backendThreshold |-> Undef, frontendThreshold |-> Undef,
                     lambdaThreshold |-> Undef, customThresholds |-> Undef,
                     maxDiff |-> Undef]
      \* this.config.coverage?.types || []
      types == IF Truthy(Prop(config.coverage, "types")) THEN config.coverage.types.items
               ELSE <<>>
  IN  IF Truthy(config)
      THEN [given EXCEPT !.customThresholds = ThresholdsOfTypes(types),
                         !.maxDiff = Or(given.maxDiff, getMaxCoverageDiff(config))]
      ELSE given

GitHubCoverageReporterNew(opts, file) ==
  LET config == loadConfig(file)
      features == IF Truthy(config) THEN getFeatures(config) ELSE EmptyObj(FeatureKeys)
      s3Config == IF Truthy(config) THEN getS3Config(config) ELSE EmptyObj(S3Keys)
      githubConfig == IF Truthy(config) THEN getGitHubConfig(config) ELSE EmptyObj(GhKeys)
      githubHelper == GitHubHelperNew(mergeWithPriority(
                        IF Truthy(opts.github) THEN opts.github ELSE EmptyObj(GhKeys),
                        githubConfig))
      \* s3Config is an object in both cases, so the test is always true
      s3Helper == IF Truthy(opts.s3) \/ Truthy(s3Config)
                  THEN S3HelperNew(mergeWithPriority(
                         IF Truthy(opts.s3) THEN opts.s3 ELSE EmptyObj(S3Keys),
                         s3Config))
                  ELSE Null
      flag(k) == IF Lookup(opts, k) # Undef THEN opts[k]
                 ELSE Bool(features[k] # Bool(FALSE))
      resolved == [addComments |-> flag("addComments"),
                   setStatusChecks |-> flag("setStatusChecks"),
                   storeInS3 |-> IF Lookup(opts, "storeInS3") # Undef THEN opts.storeInS3
                                 ELSE Bool(features.storeInS3 # Bool(FALSE)
                                           /\ s3Helper # Null),
                   fileName |-> Or(opts.fileName, s3Config.fileName),
                   coverageType |-> Lookup(opts, "coverageType")]
  IN  [config |-> config,
       githubHelper |-> githubHelper,
       s3Helper |-> s3Helper,
       coverageReporter |-> CoverageReporterNew(CoverageOptions(opts, config)),
       \* { ...resolved, ...options }: every own key of options, undefined
       \* ones included, replaces the resolved value
       options |-> [k \in DOMAIN resolved \cup DOMAIN opts |->
                      IF k \in DOMAIN opts THEN opts[k] ELSE resolved[k]]]

----------------------------------------------------------------------------
(* The History Store and the state of the runs                             *)

\* the invocations of run the model follows at the same time
Runs == {1, 2}

\* {} of a history document or of a snapshot
EmptyObject == [k \in {} |-> 0]

\* JSON.stringify of a history document: the text, as its branch keys and its
\* "branch"."type": value members
JSONstringify(doc) ==
  [branches |-> DOMAIN doc,
   members |-> {<<b, t, doc[b][t]>> : <<b, t>> \in
                  UNION {{<<b2, t2>> : t2 \in DOMAIN doc[b2]} : b2 \in DOMAIN doc}}]

\* JSON.parse of such a text
JSONparse(text) ==
  [b \in text.branches |->
     [t \in {m[2] : m \in {x \in text.members : x[1] = b}} |->
        (CHOOSE m \in text.members : m[1] = b /\ m[2] = t)[3]]]

IdleLoc ==
  [types |-> <<>>, multi |-> FALSE, i |-> 1, pr |-> Null, branchData |-> EmptyObject,
   currentCoverage |-> EmptyObject, previousCoverage |-> EmptyObject,
   prevCoverageJson |-> EmptyObject]

\* the run variables of a specification that starts no run
RunFrame ==
  /\ store = JSONstringify(EmptyObject)
  /\ inp = [r \in Runs |-> Undef]
  /\ pc = [r \in Runs |-> "idle"]
  /\ loc = [r \in Runs |-> IdleLoc]
  /\ log = [r \in Runs |-> <<>>]

----------------------------------------------------------------------------
(* Inputs of the configuration specification                               *)

GhObj(owner, repo) ==
  [owner |-> owner, repo |-> repo, currentBranch |-> Undef, targetBranch |-> Undef,
   defaultTargetBranch |-> Undef]

S3Obj(bucketName, folderName) ==
  [bucketName |-> bucketName, folderName |-> folderName, fileName |-> Undef,
   region |-> Undef]

CovOpts(maxDiff) ==
  [backendThreshold |-> Undef, frontendThreshold |-> Undef, lambdaThreshold |-> Undef,
   customThresholds |-> Undef, maxDiff |-> maxDiff]

\* largest maxDiff an input gives explicitly
MaxDiffOpt == 2

MaxDiffValues == {Undef, Null} \cup {Num(n) : n \in 0..MaxDiffOpt}

OptionsSet ==
  {[github |-> gh, s3 |-> s3, coverage |-> cov, addComments |-> Undef,
    setStatusChecks |-> Undef, storeInS3 |-> Undef, fileName |-> Undef] :
     gh \in {Undef} \cup {GhObj(o, r) : o \in {Undef, Null, Str(""), Str("opt-owner")},
                                        r \in {Undef, Str("opt-repo")}},
     s3 \in {Undef, S3Obj(Str("opt-bucket"), Str("opt-folder")),
             S3Obj(Str("opt-bucket"), Undef)},
     cov \in {Undef} \cup {CovOpts(m) : m \in MaxDiffValues}}

\* an array, as an object holding its items
Arr(items) == [items |-> items]

CfgTypes ==
  Arr(<<[name |-> "backend", filePath |-> Str("./backend/coverage.json"),
         keyPath |-> Undef, threshold |-> Num(80)]>>)

ConfigFiles ==
  {Missing, Unparsable} \cup
  {[coverage |-> [types |-> CfgTypes, maxDiff |-> cm], config |-> cc, s3 |-> Undef,
    github |-> Undef, fileName |-> Undef, folderName |-> Undef, owner |-> fo,
    repo |-> Undef, defaultTargetBranch |-> Undef] :
     cm \in {Undef, Num(MaxDiffOpt + 3)},
     fo \in {Undef, Str("flat-owner")},
     cc \in {Undef} \cup
            {[features |-> Undef, maxCoverageDiff |-> md, s3 |-> s3o, github |-> gho] :
               md \in {Undef, Null, Num(0), Num(MaxDiffOpt + 1)},
               s3o \in {Undef, S3Obj(Str("cfg-bucket"), Str("cfg-folder")),
                        S3Obj(Str("cfg-bucket"), Undef)},
               gho \in {Undef, GhObj(Str("cfg-owner"), Str("cfg-repo")),
                        GhObj(Str(""), Undef)}}}

EnvOf(gh, s3) ==
  [GITHUB_OWNER |-> IF gh THEN Str("env-owner") ELSE Undef,
   OWNER |-> Undef,
   GITHUB_REPO |-> IF gh THEN Str("env-repo") ELSE Undef,
   GITHUB_CURR_BRANCH |-> Undef,
   GITHUB_TARGET_BRANCH |-> Undef,
   AWS_S3_BUCKET |-> IF s3 THEN Str("env-bucket") ELSE Undef,
   BUCKET_NAME |-> Undef,
   AWS_REGION |-> Undef,
   FOLDER_NAME |-> IF s3 THEN Str("env-folder") ELSE Undef]

Envs == {EnvOf(gh, s3) : gh \in BOOLEAN, s3 \in BOOLEAN}

NoCall == [op |-> "none"]

----------------------------------------------------------------------------
(* Configuration specification: the inputs are drawn, the reporter is      *)
(* constructed, getMaxCoverageDiff is called on its loaded config.         *)

InitCfg ==
  /\ options \in OptionsSet
  /\ configFile \in ConfigFiles
  /\ env \in Envs
  /\ reporter = Undef
  /\ cr = Undef
  /\ call = NoCall
  /\ ret = Undef
  /\ files = NoFiles
  /\ RunFrame

Constructor ==
  /\ reporter = Undef
  /\ reporter' = GitHubCoverageReporterNew(options, configFile)
  /\ UNCHANGED <<options, configFile, env, cr, call, ret, files, runVars>>

CallGetMaxCoverageDiff ==
  /\ reporter # Undef
  /\ call = NoCall
  /\ call' = [op |-> "getMaxCoverageDiff", config |-> reporter.config]
  /\ ret' = getMaxCoverageDiff(reporter.config)
  /\ UNCHANGED <<options, configFile, env, reporter, cr, files, runVars>>

NextCfg == Constructor \/ CallGetMaxCoverageDiff

SpecCfg == InitCfg /\ [][NextCfg]_vars


\* what the caller passed as options.coverage.maxDiff
ExplicitMaxDiff == IF Truthy(options.coverage) THEN options.coverage.maxDiff ELSE Undef

\* a value a higher-priority source overrides with
IsSet(x) == x # Undef /\ x # Null /\ x # Str("")

\* the config file's own value of a GitHub field, nested section first
FileGitHub(k) ==
  IF Truthy(reporter.config) THEN getGitHubConfig(reporter.config)[k] ELSE Undef

\* the config file's own value of an S3 field, before any default
FileS3(k) ==
  LET c == reporter.config
      nested == IF ~Truthy(c) THEN Undef
                ELSE IF Truthy(c.s3) THEN c.s3[k]
                ELSE IF Truthy(c.config) /\ Truthy(c.config.s3) THEN c.config.s3[k]
                ELSE Undef
  IN  IF Truthy(nested) \/ ~Truthy(c) \/ k # "folderName" THEN nested ELSE c.folderName

\* options, else config file, else environment
ByPrecedence(opt, file, environment) ==
  IF IsSet(opt) THEN opt ELSE IF IsSet(file) THEN file ELSE environment

\* C1: every GitHub and S3 identity field of the constructed reporter is the
\* explicit option when that is defined, non-null and non-empty; otherwise the
\* config file's value; otherwise the environment variable's.
C1_OptionsOverConfigOverEnv ==
  reporter # Undef =>
    /\ \A k \in {"owner", "repo"} :
         LET opt == Prop(options.github, k)
             e == IF k = "owner" THEN Or(env.GITHUB_OWNER, env.OWNER) ELSE env.GITHUB_REPO
         IN  (IsSet(opt) \/ IsSet(FileGitHub(k)) \/ IsSet(e))
               => reporter.githubHelper[k] = ByPrecedence(opt, FileGitHub(k), e)
    /\ \A k \in {"bucketName", "folderName"} :
         LET opt == Prop(options.s3, k)
             e == IF k = "bucketName" THEN Or(env.AWS_S3_BUCKET, env.BUCKET_NAME)
                  ELSE env.FOLDER_NAME
         IN  (IsSet(opt) \/ IsSet(FileS3(k)) \/ IsSet(e))
               => reporter.s3Helper[k] = ByPrecedence(opt, FileS3(k), e)

C10_MaxDiffFromCoverageKey ==
  (/\ reporter # Undef
   /\ Truthy(reporter.config)
   /\ ExplicitMaxDiff = Undef
   /\ reporter.config.coverage.maxDiff # Undef)
    => reporter.coverageReporter.maxDiff = reporter.config.coverage.maxDiff


----------------------------------------------------------------------------
(* Engine specifications: a CoverageReporter is constructed from drawn     *)
(* options and one of its methods is called on drawn arguments.            *)

\* coverage percentages are 0..MaxPct
MaxPct == 100

Types == {"backend", "frontend", "api"}

EngineFrame ==
  /\ RunFrame
  /\ files = NoFiles
  /\ options = Undef
  /\ configFile = Missing
  /\ env = EnvOf(FALSE, FALSE)
  /\ reporter = Undef
  /\ call = NoCall
  /\ ret = Undef

\* one type's threshold comes from the config file, or none does
ThresholdOptions ==
  {CovOpts(Undef)} \cup
  {[CovOpts(Undef) EXCEPT !.customThresholds = [k \in {type} |-> Num(th)]] :
     type \in Types, th \in 0..MaxPct}

InitStatus ==
  /\ EngineFrame
  /\ \E o \in ThresholdOptions : cr = CoverageReporterNew(o)

CallGenerateStatusChecks ==
  /\ call = NoCall
  /\ \E coverage \in 0..MaxPct, coverageType \in Types :
       /\ call' = [op |-> "generateStatusChecks", coverage |-> coverage,
                   coverageType |-> coverageType]
       /\ ret' = generateStatusChecks(cr, coverage, coverageType)
  /\ UNCHANGED <<options, configFile, env, reporter, cr, files, runVars>>

NextStatus == CallGenerateStatusChecks

SpecStatus == InitStatus /\ [][NextStatus]_vars

InitDiff ==
  /\ EngineFrame
  /\ \E m \in MaxDiffValues : cr = CoverageReporterNew(CovOpts(m))

CallGenerateDiffStatusCheck ==
  /\ call = NoCall
  /\ \E previousCoverage \in 0..MaxPct, currentCoverage \in 0..MaxPct,
        coverageType \in {"backend", "api"} :
       /\ call' = [op |-> "generateDiffStatusCheck", previousCoverage |-> previousCoverage,
                   currentCoverage |-> currentCoverage, coverageType |-> coverageType]
       /\ ret' = generateDiffStatusCheck(cr, previousCoverage, currentCoverage,
                                         coverageType)
  /\ UNCHANGED <<options, configFile, env, reporter, cr, files, runVars>>

NextDiff == CallGenerateDiffStatusCheck

SpecDiff == InitDiff /\ [][NextDiff]_vars

\* C2: whatever threshold is configured for the type, 0 included,
\* generateStatusChecks passes exactly when current >= that threshold, describes
\* that threshold and the current value, and has context code-coverage-{type}.
C2_StatusUsesConfiguredThreshold ==
  (call.op = "generateStatusChecks" /\ Lookup(cr.thresholds, call.coverageType) # Undef) =>
    LET threshold == Lookup(cr.thresholds, call.coverageType).v
    IN  /\ ret.pass = (call.coverage >= threshold)
        /\ ret.description = StatusDescription(threshold, call.coverage)
        /\ ret.context = StatusContext(call.coverageType)

C4_NoBaselineGivesNull ==
  (call.op = "generateDiffStatusCheck" /\ call.previousCoverage = 0) => ret = Null

C4_Witness ==
  /\ call.op = "generateDiffStatusCheck"
  /\ call.previousCoverage = 0
  /\ call.currentCoverage > cr.maxDiff.v
  /\ ret = Null


----------------------------------------------------------------------------
(* S3Helper.getCoverageJsonFile, GitHubHelper.getBaseBranch and            *)
(* GitHubCoverageReporter.updateS3Coverage                                 *)

getCoverageJsonFile_KeepsDocument(text, ok) == JSONparse(text)

\* {} when the fetch or the parse throws, the parsed document otherwise
getCoverageJsonFile(text, ok) == IF ok THEN JSONparse(text) ELSE EmptyObject

getBaseBranch(pr, targetBranch) ==
  IF pr # Null /\ pr.base # Undef /\ pr.base.ref # "" THEN pr.base.ref ELSE targetBranch

\* obj[k] || {}
BranchDataOf(obj, k) == IF k \in DOMAIN obj THEN obj[k] ELSE EmptyObject

\* obj[k] || 0
ValueOrZero(obj, k) == IF k \in DOMAIN obj /\ obj[k] # 0 THEN obj[k] ELSE 0

\* { ...obj, [k]: v }
Assign(obj, k, v) == [x \in DOMAIN obj \cup {k} |-> IF x = k THEN v ELSE obj[x]]

updatedData_FreshBranchEntry(prevCoverageJson, branchName, coverageType, currentCoverage) ==
  Assign(prevCoverageJson, branchName, Assign(EmptyObject, coverageType, currentCoverage))

\* the document updateS3Coverage uploads
updatedData(prevCoverageJson, branchName, coverageType, currentCoverage) ==
  LET branchData == BranchDataOf(prevCoverageJson, branchName)
  IN  Assign(prevCoverageJson, branchName, Assign(branchData, coverageType, currentCoverage))

----------------------------------------------------------------------------
(* GitHubCoverageReporter.run: one action per call site                    *)

Branches == {"main", "feature"}

\* the open pull request fetchPR can find
OpenPR == [number |-> 7, base |-> [ref |-> "main"]]

\* what the coverage report of a type can hold
FileValues == {70, 92}

RunOptionsSet ==
  {[coverageTypes |-> ts[1], coverageType |-> ts[2], addComment |-> ac] :
     ts \in {<<Undef, Str("backend")>>, <<Undef, Str("frontend")>>,
             <<Arr(<<"backend", "frontend">>), Undef>>},
     ac \in {Undef, Bool(FALSE)}}

\* a constructed reporter, the arguments of run and the branch of the checkout
RunInputs ==
  {[addComments |-> a, setStatusChecks |-> s, storeInS3 |-> h, s3Helper |-> TRUE,
    coverageType |-> Undef, coverageReporter |-> CoverageReporterNew(CovOpts(Undef)),
    targetBranch |-> "main", coverageData |-> Null, runOptions |-> ro, branch |-> b] :
     a \in BOOLEAN, s \in BOOLEAN, h \in BOOLEAN, ro \in RunOptionsSet,
     b \in Branches}

NextPc(l, at) ==
  IF l.multi
  THEN CASE at = "fetchPR" -> "getPrev"
         [] at = "getPrev" -> "parse"
         [] at = "parse" -> "status"
         [] at = "status" -> "delta"
         [] at = "delta" -> "get"
         [] at = "get" -> "put"
         [] at = "put" -> IF l.i < Len(l.types) THEN "parse" ELSE "comment"
         [] at = "comment" -> "done"
  ELSE CASE at = "parse" -> "fetchPR"
         [] at = "fetchPR" -> "getPrev"
         [] at = "getPrev" -> "status"
         [] at = "status" -> "delta"
         [] at = "delta" -> "comment"
         [] at = "comment" -> "get"
         [] at = "get" -> "put"
         [] at = "put" -> "done"

Goto(r, at) == pc' = [pc EXCEPT ![r] = NextPc(loc[r], at)]

Throw(r) == pc' = [pc EXCEPT ![r] = "failed"]

Logged(r, e) == log' = [log EXCEPT ![r] = Append(@, e)]

cfgEngVars == <<options, configFile, env, reporter, cr, call, ret, files>>

\* the type the run is processing
TypeOf(r) == loc[r].types[loc[r].i]

\* run is entered with drawn arguments
Start(r, in) ==
  /\ pc[r] = "idle"
  /\ inp' = [inp EXCEPT ![r] = in]
  /\ LET ro == in.runOptions
         multi == ~IsPrim(ro.coverageTypes) /\ Len(ro.coverageTypes.items) > 1
         coverageType == Or(ro.coverageType, in.coverageType)
     IN  /\ loc' = [loc EXCEPT ![r] =
                      [IdleLoc EXCEPT !.multi = multi,
                                      !.types = IF multi THEN ro.coverageTypes.items
                                                ELSE <<coverageType.v>>]]
         /\ pc' = [pc EXCEPT ![r] = IF multi THEN "fetchPR" ELSE "parse"]
  /\ UNCHANGED <<store, log, cfgEngVars>>

\* currentCoverage = coverageData || this.parseCoverageFromFile(...)
Parse(r) ==
  /\ pc[r] = "parse"
  /\ LET l == loc[r]
         type == TypeOf(r)
         previous == IF l.multi THEN ValueOrZero(l.branchData, type) ELSE 0
         got(v) == [l EXCEPT !.currentCoverage = Assign(@, type, v),
                             !.previousCoverage = Assign(@, type, previous)]
     IN  IF ~l.multi /\ Truthy(inp[r].coverageData)
         THEN /\ loc' = [loc EXCEPT ![r] = got(inp[r].coverageData.v)]
              /\ Goto(r, "parse")
         ELSE \/ \E v \in FileValues :
                   /\ loc' = [loc EXCEPT ![r] = got(v)]
                   /\ Goto(r, "parse")
              \/ /\ Throw(r)
                 /\ UNCHANGED loc
  /\ UNCHANGED <<store, inp, log, cfgEngVars>>

FetchPR_Always(r) ==
  /\ pc[r] = "fetchPR"
  /\ \E found \in {OpenPR, Null} :
       /\ loc' = [loc EXCEPT ![r].pr = found]
       /\ Logged(r, [op |-> "fetchPR", ok |-> found # Null])
  /\ Goto(r, "fetchPR")
  /\ UNCHANGED <<store, inp, cfgEngVars>>

\* pr = await this.githubHelper.fetchPR()
FetchPR(r) ==
  /\ pc[r] = "fetchPR"
  /\ IF inp[r].addComments \/ inp[r].setStatusChecks
     THEN \E found \in {OpenPR, Null} :
            /\ loc' = [loc EXCEPT ![r].pr = found]
            /\ Logged(r, [op |-> "fetchPR", ok |-> found # Null])
     ELSE UNCHANGED <<loc, log>>
  /\ Goto(r, "fetchPR")
  /\ UNCHANGED <<store, inp, cfgEngVars>>

GetPrev_WithoutPR(r) ==
  /\ pc[r] = "getPrev"
  /\ IF inp[r].s3Helper
     THEN \E ok \in BOOLEAN :
            LET prevCoverageJson == getCoverageJsonFile(store, ok)
                baseBranch == getBaseBranch(loc[r].pr, inp[r].targetBranch)
                branchData == BranchDataOf(prevCoverageJson, baseBranch)
            IN  /\ loc' = [loc EXCEPT
                             ![r].branchData = branchData,
                             ![r].previousCoverage =
                                IF loc[r].multi THEN @
                                ELSE Assign(@, TypeOf(r), ValueOrZero(branchData, TypeOf(r)))]
                /\ Logged(r, [op |-> "get", site |-> "previous", ok |-> ok])
     ELSE UNCHANGED <<loc, log>>
  /\ Goto(r, "getPrev")
  /\ UNCHANGED <<store, inp, cfgEngVars>>

\* the history read that gives the previous values
GetPrev(r) ==
  /\ pc[r] = "getPrev"
  /\ IF inp[r].s3Helper /\ loc[r].pr # Null
     THEN \E ok \in BOOLEAN :
            LET prevCoverageJson == getCoverageJsonFile(store, ok)
                baseBranch == getBaseBranch(loc[r].pr, inp[r].targetBranch)
                branchData == BranchDataOf(prevCoverageJson, baseBranch)
            IN  /\ loc' = [loc EXCEPT
                             ![r].branchData = branchData,
                             ![r].previousCoverage =
                                IF loc[r].multi THEN @
                                ELSE Assign(@, TypeOf(r), ValueOrZero(branchData, TypeOf(r)))]
                /\ Logged(r, [op |-> "get", site |-> "previous", ok |-> ok])
     ELSE UNCHANGED <<loc, log>>
  /\ Goto(r, "getPrev")
  /\ UNCHANGED <<store, inp, cfgEngVars>>

Status_ContinuesOnFailure(r) ==
  /\ pc[r] = "status"
  /\ LET type == TypeOf(r)
         statusCheck == generateStatusChecks(inp[r].coverageReporter,
                                             loc[r].currentCoverage[type], type)
     IN  IF inp[r].setStatusChecks
         THEN \E ok \in BOOLEAN :
                /\ Logged(r, [op |-> "status", type |-> type, ok |-> ok,
                              check |-> statusCheck])
                /\ Goto(r, "status")
         ELSE /\ Goto(r, "status")
              /\ UNCHANGED log
  /\ UNCHANGED <<store, inp, loc, cfgEngVars>>

\* setStatusChecks: the threshold check
Status(r) ==
  /\ pc[r] = "status"
  /\ LET type == TypeOf(r)
         statusCheck == generateStatusChecks(inp[r].coverageReporter,
                                             loc[r].currentCoverage[type], type)
     IN  IF inp[r].setStatusChecks
         THEN \E ok \in BOOLEAN :
                /\ Logged(r, [op |-> "status", type |-> type, ok |-> ok,
                              check |-> statusCheck])
                /\ IF ok THEN Goto(r, "status") ELSE Throw(r)
         ELSE /\ Goto(r, "status")
              /\ UNCHANGED log
  /\ UNCHANGED <<store, inp, loc, cfgEngVars>>

\* setStatusChecks: the diff check
Delta(r) ==
  /\ pc[r] = "delta"
  /\ LET type == TypeOf(r)
         diffCheck == generateDiffStatusCheck(inp[r].coverageReporter,
                                              loc[r].previousCoverage[type],
                                              loc[r].currentCoverage[type], type)
     IN  IF inp[r].setStatusChecks /\ diffCheck # Null
         THEN \E ok \in BOOLEAN :
                /\ Logged(r, [op |-> "delta", type |-> type, ok |-> ok,
                              check |-> diffCheck])
                /\ IF ok THEN Goto(r, "delta") ELSE Throw(r)
         ELSE /\ Goto(r, "delta")
              /\ UNCHANGED log
  /\ UNCHANGED <<store, inp, loc, cfgEngVars>>

Comment_Rethrows(r) ==
  /\ pc[r] = "comment"
  /\ IF inp[r].addComments /\ loc[r].pr # Null /\ inp[r].runOptions.addComment # Bool(FALSE)
     THEN \E ok \in BOOLEAN :
            /\ Logged(r, [op |-> "comment", types |-> loc[r].types, ok |-> ok])
            /\ IF ok THEN Goto(r, "comment") ELSE Throw(r)
     ELSE /\ UNCHANGED log
          /\ Goto(r, "comment")
  /\ UNCHANGED <<store, inp, loc, cfgEngVars>>

\* addPRComment: a failure is swallowed
Comment(r) ==
  /\ pc[r] = "comment"
  /\ IF inp[r].addComments /\ loc[r].pr # Null /\ inp[r].runOptions.addComment # Bool(FALSE)
     THEN \E ok \in BOOLEAN :
            Logged(r, [op |-> "comment", types |-> loc[r].types, ok |-> ok])
     ELSE UNCHANGED log
  /\ Goto(r, "comment")
  /\ UNCHANGED <<store, inp, loc, cfgEngVars>>

\* the history read that precedes the write
Get(r) ==
  /\ pc[r] = "get"
  /\ IF inp[r].storeInS3 /\ inp[r].s3Helper
     THEN \E ok \in BOOLEAN :
            /\ loc' = [loc EXCEPT ![r].prevCoverageJson = getCoverageJsonFile(store, ok)]
            /\ Logged(r, [op |-> "get", site |-> "update", ok |-> ok])
     ELSE UNCHANGED <<loc, log>>
  /\ Goto(r, "get")
  /\ UNCHANGED <<store, inp, cfgEngVars>>

Put_FromStoreAtUpload(r) ==
  /\ pc[r] = "put"
  /\ LET type == TypeOf(r)
         l == loc[r]
         data == updatedData(JSONparse(store), inp[r].branch, type,
                             l.currentCoverage[type])
         next == [l EXCEPT !.i = IF l.multi /\ l.i < Len(l.types) THEN l.i + 1 ELSE l.i]
     IN  IF inp[r].storeInS3 /\ inp[r].s3Helper
         THEN \E ok \in BOOLEAN :
                /\ Logged(r, [op |-> "put", type |-> type, ok |-> ok,
                              prevCoverageJson |-> l.prevCoverageJson,
                              before |-> store, body |-> JSONstringify(data)])
                /\ IF ok
                   THEN /\ store' = JSONstringify(data)
                        /\ Goto(r, "put")
                        /\ loc' = [loc EXCEPT ![r] = next]
                   ELSE /\ Throw(r)
                        /\ UNCHANGED <<store, loc>>
         ELSE /\ Goto(r, "put")
              /\ loc' = [loc EXCEPT ![r] = next]
              /\ UNCHANGED <<store, log>>
  /\ UNCHANGED <<inp, cfgEngVars>>

\* updateS3Coverage: the upload
Put(r) ==
  /\ pc[r] = "put"
  /\ LET type == TypeOf(r)
         l == loc[r]
         data == updatedData(l.prevCoverageJson, inp[r].branch, type,
                             l.currentCoverage[type])
         next == [l EXCEPT !.i = IF l.multi /\ l.i < Len(l.types) THEN l.i + 1 ELSE l.i]
     IN  IF inp[r].storeInS3 /\ inp[r].s3Helper
         THEN \E ok \in BOOLEAN :
                /\ Logged(r, [op |-> "put", type |-> type, ok |-> ok,
                              prevCoverageJson |-> l.prevCoverageJson,
                              before |-> store, body |-> JSONstringify(data)])
                /\ IF ok
                   THEN /\ store' = JSONstringify(data)
                        /\ Goto(r, "put")
                        /\ loc' = [loc EXCEPT ![r] = next]
                   ELSE /\ Throw(r)
                        /\ UNCHANGED <<store, loc>>
         ELSE /\ Goto(r, "put")
              /\ loc' = [loc EXCEPT ![r] = next]
              /\ UNCHANGED <<store, log>>
  /\ UNCHANGED <<inp, cfgEngVars>>

Step(r) ==
  \/ Parse(r) \/ FetchPR(r) \/ GetPrev(r) \/ Status(r) \/ Delta(r)
  \/ Comment(r) \/ Get(r) \/ Put(r)

Finished(r) == pc[r] \in {"done", "failed"}

\* what a completed run resolves with
Result(r) ==
  [success |-> TRUE,
   currentCoverage |-> loc[r].currentCoverage,
   previousCoverage |-> loc[r].previousCoverage,
   pr |-> IF loc[r].pr # Null /\ loc[r].pr.number # 0 THEN Num(loc[r].pr.number) ELSE Null]

\* the variables of the other specifications, at rest
RunSpecFrame ==
  /\ options = Undef
  /\ configFile = Missing
  /\ env = EnvOf(FALSE, FALSE)
  /\ reporter = Undef
  /\ cr = Undef
  /\ call = NoCall
  /\ ret = Undef
  /\ files = NoFiles
  /\ inp = [r \in Runs |-> Undef]
  /\ pc = [r \in Runs |-> "idle"]
  /\ loc = [r \in Runs |-> IdleLoc]
  /\ log = [r \in Runs |-> <<>>]

----------------------------------------------------------------------------
(* One run, with every combination of the reporter's options, against a    *)
(* history document earlier runs have left                                  *)

StoredDocs ==
  {EmptyObject,
   [b \in {"main"} |-> [t \in {"backend"} |-> 80]],
   [b \in {"main", "feature"} |->
      IF b = "main" THEN [t \in {"backend", "frontend"} |-> IF t = "backend" THEN 80 ELSE 96]
      ELSE [t \in {"frontend"} |-> 70]]}

InitRun ==
  /\ RunSpecFrame
  /\ store \in {JSONstringify(d) : d \in StoredDocs}

StartRun == \E in \in RunInputs : Start(1, in)

NextRun == StartRun \/ Step(1)

SpecRun == InitRun /\ [][NextRun]_vars


\* the remote calls of one kind a run has issued
Calls(r, op) == {e \in {log[r][i] : i \in DOMAIN log[r]} : e.op = op}

\* C5: the document updateS3Coverage(D, T, v) uploads differs from D only at
\* [B][T], which is v: every other branch and every other type under B are as
\* in D.
C5_UploadChangesOnlyBranchType ==
  \A r \in Runs : \A e \in Calls(r, "put") :
    LET D == e.prevCoverageJson
        U == JSONparse(e.body)
        B == inp[r].branch
    IN  /\ DOMAIN U = DOMAIN D \cup {B}
        /\ \A b \in DOMAIN D \ {B} : U[b] = D[b]
        /\ DOMAIN U[B] = DOMAIN BranchDataOf(D, B) \cup {e.type}
        /\ U[B][e.type] = loc[r].currentCoverage[e.type]
        /\ \A t \in DOMAIN BranchDataOf(D, B) \ {e.type} : U[B][t] = D[B][t]

C5_Witness ==
  \E e \in Calls(1, "put") :
    /\ e.ok
    /\ e.type = "backend"
    /\ inp[1].branch = "main"
    /\ e.prevCoverageJson = JSONparse(e.before)
    /\ DOMAIN e.prevCoverageJson = {"main", "feature"}
    /\ e.prevCoverageJson["main"]["backend"] # loc[1].currentCoverage["backend"]
    /\ JSONparse(store)["main"]["frontend"] = 96
    /\ JSONparse(store)["main"]["backend"] = loc[1].currentCoverage["backend"]
    /\ JSONparse(store)["feature"] = e.prevCoverageJson["feature"]

\* fetchPR was called and found no open pull request
NoPRFound(r) == \E e \in Calls(r, "fetchPR") : ~e.ok

\* the parts of C8 that hold as the claim states them
C8_Rest(r) ==
  /\ Calls(r, "comment") = {}
  /\ \A t \in DOMAIN loc[r].previousCoverage : loc[r].previousCoverage[t] = 0
  /\ pc[r] = "done" =>
       /\ Result(r).pr = Null
       /\ DOMAIN Result(r).previousCoverage = {loc[r].types[i] : i \in DOMAIN loc[r].types}
       /\ inp[r].setStatusChecks =>
            \A i \in DOMAIN loc[r].types :
              \E e \in Calls(r, "status") :
                e.ok /\ e.check.context = StatusContext(loc[r].types[i])

\* C8 as claimed: when no open PR is found, no comment is posted, no history
\* read is made, every previousCoverage is 0, the result's pr is null and the
\* threshold status is posted for every requested type.
C8_NoPR_NoHistoryRead ==
  \A r \in Runs : NoPRFound(r) => (C8_Rest(r) /\ Calls(r, "get") = {})

\* C8 as amended: the history read that gives the previous values is skipped;
\* the only history reads are the ones that precede a history write, made when
\* storeInS3 is enabled.
C8_NoPR_NoPreviousLookup ==
  \A r \in Runs : NoPRFound(r) =>
    /\ C8_Rest(r)
    /\ \A e \in Calls(r, "get") : e.site = "update" /\ inp[r].storeInS3

C8_Witness ==
  /\ pc[1] = "done"
  /\ NoPRFound(1)
  /\ loc[1].multi
  /\ inp[1].addComments /\ inp[1].setStatusChecks /\ inp[1].storeInS3
  /\ JSONparse(store)[inp[1].branch]["frontend"] = loc[1].currentCoverage["frontend"]
  /\ Cardinality(Calls(1, "status")) = 2
  /\ Calls(1, "comment") = {}


----------------------------------------------------------------------------
(* Runs one after another: the command-line process of one run exits       *)
(* before the next starts, and the history document starts empty           *)

\* the reporters that only record history
HistoryInputs ==
  {in \in RunInputs : /\ ~in.addComments
                      /\ ~in.setStatusChecks
                      /\ in.storeInS3
                      /\ in.runOptions.addComment = Undef}

\* process.exit after reporter.run has settled
Exit(r) ==
  /\ Finished(r)
  /\ pc' = [pc EXCEPT ![r] = "idle"]
  /\ inp' = [inp EXCEPT ![r] = Undef]
  /\ loc' = [loc EXCEPT ![r] = IdleLoc]
  /\ log' = [log EXCEPT ![r] = <<>>]
  /\ UNCHANGED <<store, cfgEngVars>>

InitSeq ==
  /\ RunSpecFrame
  /\ store = JSONstringify(EmptyObject)

StartSeq == \E in \in HistoryInputs : Start(1, in)

NextSeq == StartSeq \/ Step(1) \/ Exit(1)

SpecSeq == InitSeq /\ [][NextSeq]_vars

\* C6: in a sequence of runs, an upload of a run on branch B leaves the stored
\* entry of every other branch as it was, whether or not the run's history
\* read succeeded.
C6_OtherBranchesKept ==
  \A r \in Runs : \A e \in Calls(r, "put") :
    e.ok =>
      \A b \in DOMAIN JSONparse(e.before) \ {inp[r].branch} :
        /\ b \in DOMAIN JSONparse(e.body)
        /\ JSONparse(e.body)[b] = JSONparse(e.before)[b]

----------------------------------------------------------------------------
(* Two runs at the same time against one history document                  *)

SingleTypeInputs == {in \in HistoryInputs : IsPrim(in.runOptions.coverageTypes)}

InitConc ==
  /\ RunSpecFrame
  /\ store = JSONstringify(EmptyObject)

StartConc == \E r \in Runs : \E in \in SingleTypeInputs : Start(r, in)

StepConc == \E r \in Runs : Step(r)

NextConc == StartConc \/ StepConc

SpecConc == InitConc /\ [][NextConc]_vars

\* the upload a completed single-type run has made
PutOf(r) == CHOOSE e \in Calls(r, "put") : TRUE

\* both runs completed their uploads, on one branch, for different types
BothUploaded(r, q) ==
  /\ r # q
  /\ pc[r] = "done" /\ pc[q] = "done"
  /\ inp[r].branch = inp[q].branch
  /\ TypeOf(r) # TypeOf(q)

\* C7: of two runs on one branch for different types, when the run that
\* uploads last took its snapshot before the other's upload, the history ends
\* without the other's value: only one of the two new values is kept.
C7_StaleSnapshotLosesUpdate ==
  \A r \in Runs : \A q \in Runs :
    (/\ BothUploaded(r, q)
     /\ TypeOf(q) \in DOMAIN BranchDataOf(JSONparse(PutOf(r).before), inp[r].branch))
    =>
     /\ store = PutOf(r).body
     /\ JSONparse(store)[inp[r].branch][TypeOf(r)] = loc[r].currentCoverage[TypeOf(r)]
     /\ TypeOf(q) \in DOMAIN JSONparse(store)[inp[r].branch]
          <=> TypeOf(q) \in DOMAIN BranchDataOf(PutOf(r).prevCoverageJson, inp[r].branch)

\* both history reads succeeded, both uploads succeeded, one value is lost
C7_Witness ==
  \E r \in Runs : \E q \in Runs :
    /\ BothUploaded(r, q)
    /\ \A e \in Calls(r, "get") \cup Calls(q, "get") : e.ok
    /\ PutOf(r).prevCoverageJson = EmptyObject
    /\ PutOf(q).prevCoverageJson = EmptyObject
    /\ DOMAIN JSONparse(PutOf(r).before)[inp[r].branch] = {TypeOf(q)}
    /\ DOMAIN JSONparse(store)[inp[r].branch] = {TypeOf(r)}
----------------------------------------------------------------------------
(* The explicit maxDiff option against the config file                     *)

\* C11: an explicit options.coverage.maxDiff that is defined and non-null,
\* 0 included, is the reporter's maxDiff whatever the config file holds; the
\* config file's value is used only when the option is undefined or null.
C11_ExplicitMaxDiffWins ==
  reporter # Undef =>
    IF ~IsNullish(ExplicitMaxDiff)
    THEN reporter.coverageReporter.maxDiff = ExplicitMaxDiff
    ELSE Truthy(reporter.config) =>
           reporter.coverageReporter.maxDiff = getMaxCoverageDiff(reporter.config)
----------------------------------------------------------------------------
(* Obtaining the current value: parseCoverageFromFile, getDefaultFilePath, *)
(* ConfigManager.getCoveragePath and CoverageParser.parseSingleFile        *)

\* how a call ends, with the report files it read on the way
Returned(v, reads) == [done |-> "return", v |-> v, reads |-> reads]
Thrown(error, reads) == [done |-> "throw", error |-> error, reads |-> reads]

\* a dotted key path, as its segments and separators
DefaultKeyPath == <<"total", ".", "statements", ".", "pct">>

\* path.split('.')
split(path) == SelectSeq(path, LAMBDA k : k # ".")

RECURSIVE getNestedValue(_, _)
getNestedValue(obj, keys) ==
  IF keys = <<>> THEN obj
  ELSE getNestedValue(IF IsPrim(obj) \/ Head(keys) \notin DOMAIN obj THEN Undef
                      ELSE obj[Head(keys)],
                      Tail(keys))

parseSingleFile_MissingFileThrows(filePath, keyPath) ==
  IF ~(/\ IsPrim(filePath) /\ filePath.t = "string"
       /\ filePath.v \in DOMAIN files
       /\ files[filePath.v] # Missing)
  THEN Thrown([name |-> "Error", message |-> <<"ENOENT">>], <<>>)
  ELSE LET text == files[filePath.v]
           coverage == getNestedValue(text, split(keyPath))
       IN  IF text = Unparsable
           THEN Thrown([name |-> "SyntaxError", message |-> <<>>], <<filePath.v>>)
           ELSE IF coverage # Undef THEN Returned(coverage, <<filePath.v>>)
           ELSE Thrown([name |-> "Error",
                        message |-> <<"Key path not found in coverage file: ">>
                                    \o keyPath],
                       <<filePath.v>>)

\* CoverageParser.parseSingleFile(filePath, keyPath = 'total.statements.pct')
parseSingleFile(filePath, keyPath) ==
  LET exists == /\ IsPrim(filePath) /\ filePath.t = "string"
                /\ filePath.v \in DOMAIN files
                /\ files[filePath.v] # Missing
  IN  IF ~exists THEN Returned(Num(0), <<>>)
      ELSE LET text == files[filePath.v]
               reads == <<filePath.v>>
               coverage == getNestedValue(text, split(keyPath))
           IN  IF text = Unparsable
               THEN Thrown([name |-> "SyntaxError", message |-> <<>>], reads)
               ELSE IF coverage # Undef THEN Returned(coverage, reads)
               ELSE Thrown([name |-> "Error",
                            message |-> <<"Key path not found in coverage file: ">>
                                        \o keyPath],
                           reads)

\* coverage.types.find(t => t.name === type)
Find(items, type) ==
  LET hits == {i \in DOMAIN items : Str(items[i].name) = type}
  IN  IF hits = {} THEN Undef
      ELSE items[CHOOSE i \in hits : \A j \in hits : i <= j]

getCoveragePath(type, config) ==
  IF ~Truthy(config) \/ ~Truthy(config.coverage) \/ ~Truthy(config.coverage.types)
  THEN Thrown([name |-> "Error",
               message |-> <<"Invalid configuration format: coverage types not found">>],
              <<>>)
  ELSE LET typeConfig == Find(config.coverage.types.items, type)
       IN  IF ~Truthy(typeConfig)
           THEN Thrown([name |-> "Error",
                        message |-> <<"Coverage type not found in configuration: ",
                                      IF type = Undef THEN "undefined" ELSE type.v>>],
                       <<>>)
           ELSE Returned(typeConfig.filePath, <<>>)

getCoverageKeyPath(type, config) ==
  IF ~Truthy(config) \/ ~Truthy(config.coverage) \/ ~Truthy(config.coverage.types)
  THEN Thrown([name |-> "Error",
               message |-> <<"Invalid configuration format: coverage types not found">>],
              <<>>)
  ELSE LET typeConfig == Find(config.coverage.types.items, type)
       IN  IF ~Truthy(typeConfig)
           THEN Thrown([name |-> "Error",
                        message |-> <<"Coverage type not found in configuration: ",
                                      IF type = Undef THEN "undefined" ELSE type.v>>],
                       <<>>)
           ELSE Returned(typeConfig.keyPath, <<>>)

\* the types a run is asked for
ParseTypes == {"backend", "custom"}

\* `${coverageType.toUpperCase()}_COVERAGE_SUMMARY_JSON_PATH`
envVarName(coverageType) ==
  CASE coverageType = "backend" -> "BACKEND_COVERAGE_SUMMARY_JSON_PATH"
    [] coverageType = "custom" -> "CUSTOM_COVERAGE_SUMMARY_JSON_PATH"

getDefaultFilePath(coverageType) ==
  IF coverageType = Undef
  THEN Thrown([name |-> "TypeError", message |-> <<>>], <<>>)
  ELSE LET variable == envVarName(coverageType.v)
       IN  IF Truthy(env[variable]) THEN Returned(env[variable], <<>>)
           ELSE Thrown([name |-> "Error",
                        message |-> <<"No coverage path found for type '",
                                      coverageType.v, "'. Please set the ", variable,
                                      " environment variable or provide a file path explicitly.">>],
                       <<>>)

parseCoverageFromFile(this, opts) ==
  LET coverageType == Or(opts.coverageType, this.options.coverageType)
      configPath == getCoveragePath(coverageType, this.config)
      \* the try block over the config file's path
      fromConfig == IF ~Truthy(this.config) THEN Thrown(Undef, <<>>)
                    ELSE IF configPath.done = "throw" THEN configPath
                    ELSE parseSingleFile(configPath.v, DefaultKeyPath)
      envPath == getDefaultFilePath(coverageType)
      fromEnv == IF envPath.done = "throw" THEN envPath
                 ELSE parseSingleFile(envPath.v, DefaultKeyPath)
  IN  IF Truthy(opts.filePath) THEN parseSingleFile(opts.filePath, DefaultKeyPath)
      ELSE IF fromConfig.done = "return" THEN fromConfig
      ELSE [fromEnv EXCEPT !.reads = fromConfig.reads \o @]

\* run, single type: coverageData || this.parseCoverageFromFile(options)
singleTypeCurrentCoverage(this, coverageData, opts) ==
  IF Truthy(coverageData) THEN Returned(coverageData, <<>>)
  ELSE parseCoverageFromFile(this, opts)
----------------------------------------------------------------------------
(* Parse specification: a reporter is constructed over a config file, an   *)
(* environment and a file system, then asked for a current value           *)

ExplicitPath == "explicit.json"
ConfigPath == "config.json"
EnvPath == "env.json"

ReportPaths == {ExplicitPath, ConfigPath, EnvPath}

\* the statements percentage of the report at each path
ReportPct(path) ==
  CASE path = ExplicitPath -> 81
    [] path = ConfigPath -> 82
    [] path = EnvPath -> 83

\* a coverage summary; its lines percentage is 20 under its statements one
Report(path) ==
  [total |-> [statements |-> [pct |-> Num(ReportPct(path))],
              lines |-> [pct |-> Num(ReportPct(path) - 20)]]]

\* a summary without the statements section
ReportWithoutStatements(path) ==
  [total |-> [lines |-> [pct |-> Num(ReportPct(path) - 20)]]]

FileSystems ==
  {[p \in ReportPaths |->
      CASE c[p] = 1 -> Missing
        [] c[p] = 2 -> Unparsable
        [] c[p] = 3 -> Report(p)
        [] c[p] = 4 -> ReportWithoutStatements(p)] :
     c \in [ReportPaths -> 1..4]}

LinesKeyPath == <<"total", ".", "lines", ".", "pct">>

\* config files that differ in what they hold for the type 'custom'
ParseConfigFiles ==
  {Missing} \cup
  {[coverage |-> [types |-> ts, maxDiff |-> Undef], config |-> Undef, s3 |-> Undef,
    github |-> Undef, fileName |-> Undef, folderName |-> Undef, owner |-> Undef,
    repo |-> Undef, defaultTargetBranch |-> Undef] :
     ts \in {Arr(<<>>)} \cup
            {Arr(<<[name |-> "custom", filePath |-> fp, keyPath |-> kp,
                    threshold |-> Num(80)]>>) :
               fp \in {Undef, Str(ConfigPath)}, kp \in {Undef, Str(LinesKeyPath)}}}

ParseCtorOptions ==
  {[github |-> Undef, s3 |-> Undef, coverage |-> Undef, addComments |-> Undef,
    setStatusChecks |-> Undef, storeInS3 |-> Undef, fileName |-> Undef,
    coverageType |-> t] : t \in {Undef, Str("backend")}}

ParseEnvs ==
  {EnvOf(FALSE, FALSE) @@
     [n \in {envVarName(t) : t \in ParseTypes} |->
        IF n = envVarName("custom") THEN c ELSE b] :
     c \in {Undef, Str(""), Str(EnvPath)}, b \in {Undef, Str(EnvPath)}}

\* the options argument of run and of parseCoverageFromFile
ParseOptions ==
  {[coverageType |-> t, filePath |-> fp] :
     t \in {Undef, Str("custom")}, fp \in {Undef, Str(ExplicitPath)}}

\* the coverageData argument of run
CoverageDataValues == {Null, Num(0), Num(55)}

InitParse ==
  /\ options \in ParseCtorOptions
  /\ configFile \in ParseConfigFiles
  /\ env \in ParseEnvs
  /\ files \in FileSystems
  /\ reporter = Undef
  /\ cr = Undef
  /\ call = NoCall
  /\ ret = Undef
  /\ RunFrame

CallParseCoverageFromFile ==
  /\ reporter # Undef
  /\ call = NoCall
  /\ \E opts \in ParseOptions :
       /\ call' = [op |-> "parseCoverageFromFile", coverageData |-> Null,
                   options |-> opts]
       /\ ret' = parseCoverageFromFile(reporter, opts)
  /\ UNCHANGED <<options, configFile, env, reporter, cr, files, runVars>>

\* run(coverageData, options) up to its current value, single type
CallRun ==
  /\ reporter # Undef
  /\ call = NoCall
  /\ \E coverageData \in CoverageDataValues, opts \in ParseOptions :
       /\ call' = [op |-> "run", coverageData |-> coverageData, options |-> opts]
       /\ ret' = singleTypeCurrentCoverage(reporter, coverageData, opts)
  /\ UNCHANGED <<options, configFile, env, reporter, cr, files, runVars>>

NextParse == Constructor \/ CallParseCoverageFromFile \/ CallRun

SpecParse == InitParse /\ [][NextParse]_vars
\* the type a call resolves: options.coverageType || this.options.coverageType
CallType == Or(call.options.coverageType, reporter.options.coverageType)

\* the path the config file gives for the type of the call, Undef when none
ConfigGivenPath ==
  LET found == getCoveragePath(CallType, reporter.config)
  IN  IF found.done = "return" /\ Truthy(found.v) THEN found.v ELSE Undef

\* the value of the type's environment variable
EnvGivenPath == env[envVarName(CallType.v)]

IsNumber(x) == IsPrim(x) /\ x.t = "number"

\* the one file the precedence selects for the call, Undef when none is left
SelectedPath ==
  IF Truthy(call.options.filePath) THEN call.options.filePath
  ELSE IF Truthy(ConfigGivenPath) THEN ConfigGivenPath
  ELSE IF Truthy(EnvGivenPath) THEN EnvGivenPath
  ELSE Undef

\* C12: in the single-type flow an explicit numeric value, 0 included, is the
\* current value and no file is read; otherwise the current value comes from
\* the explicit file path, else the config file's path for the type, else the
\* path in the type's environment variable, and only the selected file is
\* read, whether or not it parses.
C12_CurrentValuePrecedence ==
  (call.op = "run" /\ Truthy(CallType)) =>
    IF IsNumber(call.coverageData)
    THEN ret = Returned(call.coverageData, <<>>)
    ELSE IF SelectedPath # Undef
    THEN /\ ret = parseSingleFile(SelectedPath, DefaultKeyPath)
         /\ \A i \in DOMAIN ret.reads : ret.reads[i] = SelectedPath.v
    ELSE ret.done = "throw" /\ ret.reads = <<>>
\* the key path the config file gives for the type of the call, else the default
ConfiguredKeyPath ==
  LET found == getCoverageKeyPath(CallType, reporter.config)
  IN  IF found.done = "return" /\ found.v # Undef THEN found.v.v ELSE DefaultKeyPath

\* C13: when a report is read for a type and holds a value at the type's
\* configured keyPath (total.statements.pct when none is configured), that
\* value is the current coverage obtained.
C13_ValueAtConfiguredKeyPath ==
  (/\ call.op = "parseCoverageFromFile"
   /\ Truthy(CallType)
   /\ ret.reads # <<>>
   /\ files[ret.reads[Len(ret.reads)]] # Unparsable)
  =>
   LET atKeyPath == getNestedValue(files[ret.reads[Len(ret.reads)]],
                                   split(ConfiguredKeyPath))
   IN  atKeyPath # Undef => (ret.done = "return" /\ ret.v = atKeyPath)

\* C20: with no explicit file path, no path for the type in the config file
\* and the type's environment variable unset or empty, parseCoverageFromFile
\* throws an error whose message names the type and the variable, and reads
\* no coverage file.
C20_NoPathRaisesNamingVariable ==
  (/\ call.op = "parseCoverageFromFile"
   /\ Truthy(CallType)
   /\ ~Truthy(call.options.filePath)
   /\ ConfigGivenPath = Undef
   /\ EnvGivenPath \in {Undef, Str("")})
  =>
   /\ ret.done = "throw"
   /\ ret.reads = <<>>
   /\ \E i \in DOMAIN ret.error.message : ret.error.message[i] = CallType.v
   /\ \E i \in DOMAIN ret.error.message :
        ret.error.message[i] = envVarName(CallType.v)
----------------------------------------------------------------------------
(* Failures during a run                                                    *)

\* the positions of a run's log at which a call of one kind failed
FailedAt(r, ops) ==
  {i \in DOMAIN log[r] : log[r][i].op \in ops /\ ~log[r][i].ok}

\* C14: a failed comment post does not end the run: the run goes on from the
\* statement after the comment, the single-type branch makes its history write
\* after it and, unless that write fails, the run resolves with success.
C14_CommentFailureSwallowed ==
  \A r \in Runs : \A i \in FailedAt(r, {"comment"}) :
    /\ i = Len(log[r]) => pc[r] # "failed"
    /\ pc[r] = "failed" => \E j \in FailedAt(r, {"put"}) : j > i
    /\ (pc[r] = "done" /\ ~loc[r].multi /\ inp[r].storeInS3) =>
         \E j \in DOMAIN log[r] :
           /\ j > i
           /\ log[r][j].op = "put" /\ log[r][j].ok
           /\ store = log[r][j].body
    /\ pc[r] = "done" => Result(r).success

C14_Witness ==
  /\ pc[1] = "done"
  /\ ~loc[1].multi
  /\ FailedAt(1, {"comment"}) # {}
  /\ \E e \in Calls(1, "put") : e.ok /\ store = e.body /\ e.before # e.body
  /\ Result(1).success
  /\ Result(1).pr = Num(OpenPR.number)

\* the calls whose failure run does not catch
Fatal == {"status", "delta", "put"}

\* C15: a failed parse, status post or history write ends the run at once:
\* the step that fails leaves the run rejected, and a rejected run issues no
\* further remote call and writes nothing.
C15_AbortOnFatalFailure ==
  [][\A r \in Runs :
       /\ pc[r] = "failed" =>
            /\ pc'[r] = "failed"
            /\ log'[r] = log[r]
            /\ store' = store
       /\ (/\ Len(log'[r]) = Len(log[r]) + 1
           /\ log'[r][Len(log'[r])].op \in Fatal
           /\ ~log'[r][Len(log'[r])].ok)
          => (pc'[r] = "failed" /\ store' = store)
       /\ (pc[r] = "parse" /\ loc'[r] = loc[r] /\ pc'[r] # "parse")
          => (pc'[r] = "failed" /\ log'[r] = log[r] /\ store' = store)]_vars

\* the first type's status post failed in a two-type run: nothing was issued
\* for the second type, no history was written, no comment was posted
C15_Witness ==
  /\ pc[1] = "failed"
  /\ loc[1].multi
  /\ loc[1].i = 1
  /\ inp[1].storeInS3 /\ inp[1].addComments
  /\ loc[1].pr # Null
  /\ FailedAt(1, {"status"}) = {Len(log[1])}
  /\ Calls(1, "put") = {}
  /\ Calls(1, "comment") = {}
  /\ \A e \in Calls(1, "status") : e.type = loc[1].types[1]

\* what a failed history read at one of the sites implies for the run
AfterFailedRead(r, sites) ==
  \A i \in FailedAt(r, {"get"}) :
    /\ (i = Len(log[r]) /\ pc[r] = "failed") =>
         TypeOf(r) \notin DOMAIN loc[r].currentCoverage
    /\ log[r][i].site \in sites =>
         /\ \A t \in DOMAIN loc[r].previousCoverage : loc[r].previousCoverage[t] = 0
         /\ Calls(r, "delta") = {}
         /\ (pc[r] = "done" /\ inp[r].setStatusChecks) =>
              \A k \in DOMAIN loc[r].types :
                \E e \in Calls(r, "status") : e.ok /\ e.type = loc[r].types[k]

\* C16 as claimed: after any failed history read the run is not aborted by
\* it, every previousCoverage is 0, the threshold status is posted and no
\* delta status is.
C16_FailedReadZeroPrevious ==
  \A r \in Runs : AfterFailedRead(r, {"previous", "update"})

\* C16 as amended: no failed history read aborts the run; when the failed read
\* is the lookup of the previous values, every previousCoverage is 0, the
\* threshold status is posted and no delta status is.
C16_FailedLookupZeroPrevious ==
  \A r \in Runs : AfterFailedRead(r, {"previous"})

C16_Witness ==
  /\ pc[1] = "done"
  /\ loc[1].pr # Null
  /\ inp[1].setStatusChecks
  /\ \E i \in FailedAt(1, {"get"}) : log[1][i].site = "previous"
  /\ \E e \in Calls(1, "put") :
       /\ e.ok
       /\ getBaseBranch(loc[1].pr, inp[1].targetBranch) \in DOMAIN JSONparse(e.before)
       /\ TypeOf(1) \in DOMAIN JSONparse(e.before)[getBaseBranch(loc[1].pr, inp[1].targetBranch)]
  /\ loc[1].previousCoverage[TypeOf(1)] = 0
  /\ Calls(1, "status") # {}
  /\ Calls(1, "delta") = {}
----------------------------------------------------------------------------
(* CoverageReporter.generateCoverageComment                                 *)

\* the symbols of the comment, by code point
WarningSign == "U+26A0 U+FE0F"
PassSign == "U+2705"
FailSign == "U+274C"
UpSign == "U+1F4C8"
DownSign == "U+1F4C9"
SameSign == "U+1F504"

NaN == [t |-> "NaN"]

IsFinite(x) == IsPrim(x) /\ x.t = "number"

\* a - b on numbers and undefined
Minus(a, b) == IF IsFinite(a) /\ IsFinite(b) THEN Num(a.v - b.v) ELSE NaN

\* a <= b, a < b, a > b: false as soon as a side is not a number
Le(a, b) == IsFinite(a) /\ IsFinite(b) /\ a.v <= b.v
Lt(a, b) == IsFinite(a) /\ IsFinite(b) /\ a.v < b.v
Gt(a, b) == IsFinite(a) /\ IsFinite(b) /\ a.v > b.v

\* type.charAt(0).toUpperCase() + type.slice(1)
Capitalize(type) ==
  CASE type = "backend" -> "Backend"
    [] type = "frontend" -> "Frontend"
    [] type = "api" -> "Api"
    [] type = "lambda" -> "Lambda"

getChangeEmoji(curr, prev) ==
  IF Gt(curr, prev) THEN UpSign ELSE IF Lt(curr, prev) THEN DownSign ELSE SameSign

\* (curr - prev).toFixed(2) with its sign and the percent sign
getChangeText(curr, prev) ==
  IF curr = prev THEN <<"No change">>
  ELSE IF Gt(curr, prev) THEN <<"+", ToString(curr.v - prev.v), ".00", "%">>
  ELSE <<"-", ToString(prev.v - curr.v), ".00", "%">>

isCoverageDropWithinLimit(r, curr, prev) == Le(Minus(prev, curr), r.maxDiff)

getStatusEmoji(success) == IF success THEN PassSign ELSE FailSign

TableRow_ThresholdOnly(r, previousCoverage, currentCoverage, type) ==
  LET current == Or(Lookup(currentCoverage, type), Num(0))
      previous == Or(Lookup(previousCoverage, type), Num(0))
      threshold == Or(Lookup(r.thresholds, type), Num(FallbackThreshold))
  IN  [type |-> Capitalize(type), current |-> current.v, previous |-> previous.v,
       change |-> <<getChangeEmoji(current, previous)>>
                  \o getChangeText(current, previous),
       threshold |-> threshold.v, status |-> getStatusEmoji(current.v >= threshold.v)]

\* one row of the table, by column
TableRow(r, previousCoverage, currentCoverage, type) ==
  LET current == Or(Lookup(currentCoverage, type), Num(0))
      previous == Or(Lookup(previousCoverage, type), Num(0))
      threshold == Or(Lookup(r.thresholds, type), Num(FallbackThreshold))
      changeStatus == isCoverageDropWithinLimit(r, current, previous)
      overallStatus == current.v >= threshold.v /\ changeStatus
  IN  [type |-> Capitalize(type), current |-> current.v, previous |-> previous.v,
       change |-> <<getChangeEmoji(current, previous)>>
                  \o getChangeText(current, previous),
       threshold |-> threshold.v, status |-> getStatusEmoji(overallStatus)]

\* the filter of the warnings
Warns(r, previousCoverage, currentCoverage, type) ==
  \/ ~isCoverageDropWithinLimit(r, Lookup(currentCoverage, type),
                                Lookup(previousCoverage, type))
  \/ Lt(Or(Lookup(currentCoverage, type), Num(0)), Lookup(r.thresholds, type))

WarningLine(r, type) ==
  <<WarningSign, " ", Capitalize(type),
    " coverage is below the required threshold",
    " / max allowed change of ", ToString(r.maxDiff.v), "%.">>

generateCoverageComment(r, previousCoverage, currentCoverage, coverageTypes) ==
  LET warned == SelectSeq(coverageTypes,
                          LAMBDA type : Warns(r, previousCoverage, currentCoverage, type))
  IN  [title |-> "## Code Coverage Report",
       tableRows |-> [i \in DOMAIN coverageTypes |->
                        TableRow(r, previousCoverage, currentCoverage, coverageTypes[i])],
       warnings |-> [i \in DOMAIN warned |-> WarningLine(r, warned[i])]]

----------------------------------------------------------------------------
(* Comment specification: generateCoverageComment on drawn maps           *)

CommentTypes == {"backend", "api"}

\* percentages on both sides of the thresholds 80 and 90
CommentValues == {0, 70, 85, 96}

\* maps that hold a value for some of the types
CoverageMaps ==
  UNION {[S -> {Num(v) : v \in CommentValues}] : S \in SUBSET CommentTypes}

CommentTypeLists == {<<"backend">>, <<"api">>, <<"backend", "api">>}

\* reporters without and with a threshold for 'api', and with threshold 0
CommentReporterOptions ==
  {[CovOpts(m) EXCEPT !.customThresholds = c] :
     m \in {Undef, Num(MaxDiffOpt)},
     c \in {Undef, [api |-> Num(75)], [api |-> Num(0)]}}

InitComment ==
  /\ EngineFrame
  /\ \E o \in CommentReporterOptions : cr = CoverageReporterNew(o)

CallGenerateCoverageComment ==
  /\ call = NoCall
  /\ \E previousCoverage \in CoverageMaps, currentCoverage \in CoverageMaps,
        coverageTypes \in CommentTypeLists :
       /\ call' = [op |-> "generateCoverageComment",
                   previousCoverage |-> previousCoverage,
                   currentCoverage |-> currentCoverage,
                   coverageTypes |-> coverageTypes]
       /\ ret' = generateCoverageComment(cr, previousCoverage, currentCoverage,
                                         coverageTypes)
  /\ UNCHANGED <<options, configFile, env, reporter, cr, files, runVars>>

NextComment == CallGenerateCoverageComment

SpecComment == InitComment /\ [][NextComment]_vars
\* a value of a map, 0 when the type is missing from it
ValueOr0(map, type) == IF type \in DOMAIN map THEN map[type].v ELSE 0

\* the threshold of a type, 80 when none is configured
ThresholdOr80(type) ==
  IF type \in DOMAIN cr.thresholds THEN cr.thresholds[type].v ELSE FallbackThreshold

\* the type fails the threshold check or the regression check
FailsChecks(type) ==
  \/ ValueOr0(call.currentCoverage, type) < ThresholdOr80(type)
  \/ ValueOr0(call.previousCoverage, type) - ValueOr0(call.currentCoverage, type)
       > cr.maxDiff.v

\* the comment returned carries a warning line for the type
Warned(type) ==
  \E j \in DOMAIN ret.warnings : ret.warnings[j][3] = Capitalize(type)

\* C17: a warning line is appended for a type exactly when the type's row
\* shows the failing indicator, which is exactly when the type fails the
\* threshold check or the regression check.
C17_WarningIffRowFails ==
  call.op = "generateCoverageComment" =>
    \A i \in DOMAIN call.coverageTypes :
      LET type == call.coverageTypes[i]
      IN  /\ Warned(type) <=> ret.tableRows[i].status = FailSign
          /\ ret.tableRows[i].status = FailSign <=> FailsChecks(type)

\* C18: every warning line reads 'WARNING-SIGN {Type} coverage is below the
\* required threshold.', and there is no warning line when every type meets
\* its threshold and its regression limit.
C18_WarningLineText ==
  call.op = "generateCoverageComment" =>
    /\ \A j \in DOMAIN ret.warnings :
         \E i \in DOMAIN call.coverageTypes :
           ret.warnings[j] = <<WarningSign, " ", Capitalize(call.coverageTypes[i]),
                               " coverage is below the required threshold", ".">>
    /\ (\A i \in DOMAIN call.coverageTypes : ~FailsChecks(call.coverageTypes[i]))
         => ret.warnings = <<>>
----------------------------------------------------------------------------
(* Feature specification: the constructor over explicit flags and the      *)
(* features section of the config file                                      *)

FlagValues == {Undef, Bool(TRUE), Bool(FALSE)}

\* options objects that pass some of the flags, an undefined value included
FeatureOptions ==
  UNION {{[github |-> Undef, s3 |-> Undef, coverage |-> Undef, fileName |-> Undef] @@ f :
            f \in [S -> FlagValues]} : S \in SUBSET FeatureKeys}

FeatureConfigFiles ==
  {Missing, Unparsable} \cup
  {[coverage |-> [types |-> CfgTypes, maxDiff |-> Undef], config |-> cc, s3 |-> Undef,
    github |-> Undef, fileName |-> Undef, folderName |-> Undef, owner |-> Undef,
    repo |-> Undef, defaultTargetBranch |-> Undef] :
     cc \in {Undef} \cup
            {[features |-> f, maxCoverageDiff |-> Undef, s3 |-> Undef, github |-> Undef] :
               f \in {Undef} \cup
                     {[addComments |-> a, setStatusChecks |-> s, storeInS3 |-> h] :
                        a \in FlagValues, s \in FlagValues, h \in FlagValues}}}

InitFeature ==
  /\ options \in FeatureOptions
  /\ configFile \in FeatureConfigFiles
  /\ env \in Envs
  /\ reporter = Undef
  /\ cr = Undef
  /\ call = NoCall
  /\ ret = Undef
  /\ files = NoFiles
  /\ RunFrame

NextFeature == Constructor

SpecFeature == InitFeature /\ [][NextFeature]_vars

\* the value the config file itself holds for a feature flag, Undef when the
\* file, its config section, its features section or the flag is absent
FileFeature(k) ==
  IF configFile \in {Missing, Unparsable} THEN Undef
  ELSE IF configFile.config = Undef THEN Undef
  ELSE IF configFile.config.features = Undef THEN Undef
  ELSE configFile.config.features[k]

\* C19: each feature flag of the constructed reporter is the explicit option
\* when that is defined, else the config file's features value, else true.
C19_FeatureFlagPrecedence ==
  reporter # Undef =>
    \A k \in FeatureKeys :
      reporter.options[k] =
        IF Lookup(options, k) # Undef THEN options[k]
        ELSE IF FileFeature(k) # Undef THEN FileFeature(k)
        ELSE Bool(TRUE)
----------------------------------------------------------------------------
(* Parser specification: CoverageParser.parseSingleFile and getNestedValue *)
(* on report files of every shape                                          *)

\* reports whose key path runs into null, a number or a missing section
ParserContents(path) ==
  {Missing, Unparsable, Report(path), ReportWithoutStatements(path),
   [total |-> Null],
   [total |-> [statements |-> Num(5)]],
   [total |-> [statements |-> [pct |-> Null]]]}

ParserFileSystems ==
  {[p \in ReportPaths |-> IF p = ExplicitPath THEN e ELSE IF p = ConfigPath THEN c
                          ELSE Missing] :
     e \in ParserContents(ExplicitPath), c \in ParserContents(ConfigPath)}

\* the file paths and key paths the parser is called with
ParserPaths == {Undef} \cup {Str(p) : p \in ReportPaths \cup {"absent.json"}}
ParserKeyPaths == {DefaultKeyPath, LinesKeyPath, <<"total">>}

InitParser ==
  /\ files \in ParserFileSystems
  /\ options = Undef
  /\ configFile = Missing
  /\ env = EnvOf(FALSE, FALSE)
  /\ reporter = Undef
  /\ cr = Undef
  /\ call = NoCall
  /\ ret = Undef
  /\ RunFrame

CallParseSingleFile ==
  /\ call = NoCall
  /\ \E filePath \in ParserPaths, keyPath \in ParserKeyPaths :
       /\ call' = [op |-> "parseSingleFile", filePath |-> filePath, keyPath |-> keyPath]
       /\ ret' = parseSingleFile(filePath, keyPath)
  /\ UNCHANGED <<options, configFile, env, reporter, cr, files, runVars>>

CallGetNestedValue ==
  /\ call = NoCall
  /\ \E p \in ReportPaths, keyPath \in ParserKeyPaths :
       /\ files[p] \notin {Missing, Unparsable}
       /\ call' = [op |-> "getNestedValue", obj |-> files[p], keyPath |-> keyPath]
       /\ ret' = getNestedValue(files[p], split(keyPath))
  /\ UNCHANGED <<options, configFile, env, reporter, cr, files, runVars>>

NextParser == CallParseSingleFile \/ CallGetNestedValue

SpecParser == InitParser /\ [][NextParser]_vars

\* the file of a call exists
CallFileExists ==
  /\ call.filePath # Undef
  /\ call.filePath.v \in DOMAIN files
  /\ files[call.filePath.v] # Missing

\* the segments of a key path of three segments or fewer
Segments(keyPath) == [i \in 1..((Len(keyPath) + 1) \div 2) |-> keyPath[2 * i - 1]]

\* obj.k for an object that has it, undefined otherwise
Member(obj, k) == IF ~IsPrim(obj) /\ k \in DOMAIN obj THEN obj[k] ELSE Undef

\* the value of a document along a key path, one member after the other
ValueAt(doc, keyPath) ==
  LET ks == Segments(keyPath)
      first == Member(doc, ks[1])
      second == IF Len(ks) >= 2 THEN Member(first, ks[2]) ELSE first
  IN  IF Len(ks) >= 3 THEN Member(second, ks[3]) ELSE second

\* some value before the end of the key path is null or undefined
BrokenBefore(doc, keyPath) ==
  LET ks == Segments(keyPath)
  IN  \/ Len(ks) >= 2 /\ Member(doc, ks[1]) \in {Null, Undef}
      \/ Len(ks) >= 3 /\ Member(Member(doc, ks[1]), ks[2]) \in {Null, Undef}

\* C21: parseSingleFile returns 0 and reads nothing when the file does not
\* exist; for an existing file it returns the value at the key path, and
\* throws when the content is not JSON or the key path gives undefined;
\* getNestedValue gives undefined when a value on the way is null or undefined.
C21_ParseSingleFileContract ==
  /\ call.op = "parseSingleFile" =>
       IF ~CallFileExists THEN ret = Returned(Num(0), <<>>)
       ELSE LET text == files[call.filePath.v]
            IN  IF text = Unparsable
                THEN ret.done = "throw" /\ ret.error.name = "SyntaxError"
                ELSE IF ValueAt(text, call.keyPath) = Undef
                THEN /\ ret.done = "throw"
                     /\ ret.error.message =
                          <<"Key path not found in coverage file: ">> \o call.keyPath
                ELSE ret = Returned(ValueAt(text, call.keyPath), <<call.filePath.v>>)
  /\ call.op = "getNestedValue" =>
       /\ ret = ValueAt(call.obj, call.keyPath)
       /\ BrokenBefore(call.obj, call.keyPath) => ret = Undef

\* a report whose total is null: the key path is not found, nothing else throws
C21_Witness ==
  /\ call.op = "parseSingleFile"
  /\ call.keyPath = DefaultKeyPath
  /\ CallFileExists
  /\ files[call.filePath.v] = [total |-> Null]
  /\ ret.done = "throw"
  /\ ret.error.name = "Error"
  /\ parseSingleFile(Str("absent.json"), DefaultKeyPath) = Returned(Num(0), <<>>)
  /\ parseSingleFile(Undef, DefaultKeyPath) = Returned(Num(0), <<>>)
----------------------------------------------------------------------------
(* Section specification: getS3Config and getGitHubConfig on config files  *)
(* that give a field in a nested section, at the top level, or both        *)

S3Sections ==
  {Undef} \cup
  {[S3Obj(Undef, fo) EXCEPT !.fileName = fi] :
     fi \in {Undef, Str(""), Str("nested.json")}, fo \in {Undef, Str("nested-folder")}}

GitHubSections ==
  {Undef} \cup
  {[GhObj(o, r) EXCEPT !.defaultTargetBranch = b] :
     o \in {Undef, Str(""), Str("nested-owner")}, r \in {Undef, Str("nested-repo")},
     b \in {Undef, Str("nested-base")}}

\* a config file by its sections and its top-level fields
SectionFile(s3, inner, github, fi, fo, o, r, b) ==
  [coverage |-> [types |-> CfgTypes, maxDiff |-> Undef],
   config |-> IF inner THEN [features |-> Undef, maxCoverageDiff |-> Undef,
                             s3 |-> S3Obj(Str("inner-bucket"), Str("inner-folder")),
                             github |-> GhObj(Str("inner-owner"), Undef)]
              ELSE Undef,
   s3 |-> s3, github |-> github, fileName |-> fi, folderName |-> fo, owner |-> o,
   repo |-> r, defaultTargetBranch |-> b]

SectionConfigFiles ==
  {SectionFile(s3, inner, Undef, fi, fo, Undef, Undef, Undef) :
     s3 \in S3Sections, inner \in BOOLEAN, fi \in {Undef, Str("top.json")},
     fo \in {Undef, Str("top-folder")}}
  \cup
  {SectionFile(Undef, inner, gh, Undef, Undef, o, r, b) :
     gh \in GitHubSections, inner \in BOOLEAN, o \in {Undef, Str("top-owner")},
     r \in {Undef, Str("top-repo")}, b \in {Undef, Str("top-base")}}

InitSection ==
  /\ configFile \in SectionConfigFiles
  /\ files = NoFiles
  /\ options = Undef
  /\ env = EnvOf(FALSE, FALSE)
  /\ reporter = Undef
  /\ cr = Undef
  /\ call = NoCall
  /\ ret = Undef
  /\ RunFrame

CallGetS3Config ==
  /\ call = NoCall
  /\ call' = [op |-> "getS3Config", config |-> loadConfig(configFile)]
  /\ ret' = getS3Config(loadConfig(configFile))
  /\ UNCHANGED <<options, configFile, env, reporter, cr, files, runVars>>

CallGetGitHubConfig ==
  /\ call = NoCall
  /\ call' = [op |-> "getGitHubConfig", config |-> loadConfig(configFile)]
  /\ ret' = getGitHubConfig(loadConfig(configFile))
  /\ UNCHANGED <<options, configFile, env, reporter, cr, files, runVars>>

NextSection == CallGetS3Config \/ CallGetGitHubConfig

SpecSection == InitSection /\ [][NextSection]_vars

\* the nested section of a kind the config file has: its own, else the one
\* under config
NestedSection(kind) ==
  IF configFile[kind] # Undef THEN configFile[kind]
  ELSE IF configFile.config # Undef THEN configFile.config[kind]
  ELSE Undef

NestedField(kind, k) ==
  IF NestedSection(kind) = Undef THEN Undef ELSE NestedSection(kind)[k]

\* nested first, then the top-level field, then the default if there is one
SectionValue(kind, k, default) ==
  IF IsSet(NestedField(kind, k)) THEN ret[k] = NestedField(kind, k)
  ELSE IF IsSet(configFile[k]) THEN ret[k] = configFile[k]
  ELSE IF default # Undef THEN ret[k] = default
  ELSE ~IsSet(ret[k])

\* C22: for fileName, folderName, owner, repo and defaultTargetBranch the
\* nested section's value is returned when it has one, the top-level field
\* only otherwise, and fileName and folderName fall back to 'coverage.json'
\* and 'github-coverage-reporter'.
C22_NestedOverTopLevel ==
  /\ call.op = "getS3Config" =>
       /\ SectionValue("s3", "fileName", Str("coverage.json"))
       /\ SectionValue("s3", "folderName", Str("github-coverage-reporter"))
  /\ call.op = "getGitHubConfig" =>
       /\ SectionValue("github", "owner", Undef)
       /\ SectionValue("github", "repo", Undef)
       /\ SectionValue("github", "defaultTargetBranch", Undef)

\* both shapes give a file name, only the top level gives a folder
C22_Witness ==
  /\ call.op = "getS3Config"
  /\ configFile.s3 # Undef
  /\ configFile.s3.fileName = Str("nested.json") /\ configFile.fileName = Str("top.json")
  /\ configFile.s3.folderName = Undef /\ configFile.folderName = Str("top-folder")
  /\ ret.fileName = Str("nested.json")
  /\ ret.folderName = Str("top-folder")
----------------------------------------------------------------------------
(* Command-line specification: bin/cli-run.js and the generated            *)
(* coverage-report script, with the reporter's constructor and run drawn   *)
(* as outcomes                                                             *)

CliNames == {<<>>, <<"backend">>, <<"backend", "frontend">>}

CliFlags == SUBSET {"--no-comments", "--no-status", "--no-s3"}

\* what reporter.run resolves to: the single-type result or the multi-type one
CliResults(names) ==
  IF Len(names) > 1
  THEN {[coverageTypes |-> Arr(names), coverageType |-> Undef,
         currentCoverage |-> [t \in {names[i] : i \in DOMAIN names} |-> Num(85)],
         previousCoverage |-> [t \in {names[i] : i \in DOMAIN names} |-> p],
         pr |-> Num(7)] : p \in {Num(0), Num(80)}}
  ELSE {[coverageTypes |-> Undef, coverageType |-> Str("backend"),
         currentCoverage |-> c, previousCoverage |-> p, pr |-> Num(7)] :
          c \in {Num(85), Str("85")}, p \in {Num(0), Num(80)}}

\* the constructor throws, run rejects (the error naming a type or not), or
\* run resolves
CliOutcomes(names) ==
  {[done |-> "throw", at |-> a, coverageType |-> t, result |-> Undef] :
     a \in {"constructor", "run"}, t \in {Undef, Str("backend")}}
  \cup
  {[done |-> "return", at |-> "run", coverageType |-> Undef, result |-> res] :
     res \in CliResults(names)}

\* the invocations of the generated script with the given arguments
ReportInputs(n, a, at) ==
  {[script |-> "coverage-report", init |-> FALSE, help |-> FALSE, names |-> n,
    flags |-> {}, all |-> a, allTypes |-> at, missingVars |-> m,
    configLoads |-> TRUE, outcome |-> o] :
     m \in BOOLEAN, o \in CliOutcomes(IF a /\ at # Undef THEN at.items ELSE n)}

CliInputs ==
  {[script |-> "cli-run", init |-> i, help |-> h, names |-> n, flags |-> f,
    all |-> FALSE, allTypes |-> Undef, missingVars |-> FALSE, configLoads |-> c,
    outcome |-> o] :
     i \in BOOLEAN, h \in BOOLEAN, n \in {<<>>, <<"backend">>}, f \in CliFlags,
     c \in BOOLEAN, o \in CliOutcomes(<<"backend">>)}
  \cup
  UNION {ReportInputs(n, a, at) :
           n \in CliNames, a \in BOOLEAN, at \in {Undef, Arr(<<"backend", "frontend">>)}}

InitCli ==
  /\ inp \in CliInputs
  /\ pc = "start"
  /\ loc = [options |-> Undef, config |-> Undef, typesToProcess |-> <<>>, ran |-> FALSE]
  /\ log = <<>>
  /\ store = Undef
  /\ ret = Undef
  /\ call = NoCall
  /\ options = Undef
  /\ configFile = Undef
  /\ env = EnvOf(FALSE, FALSE)
  /\ reporter = Undef
  /\ cr = Undef
  /\ files = NoFiles

CliFrame == UNCHANGED <<options, configFile, env, reporter, cr, call, files, store, inp>>

\* process.exit(code)
ProcessExit(code, line) ==
  /\ ret' = Num(code)
  /\ pc' = "exited"
  /\ log' = Append(log, line)

\* bin/cli-run.js up to the check of the coverage type
CliParseArgs ==
  /\ inp.script = "cli-run" /\ pc = "start"
  /\ IF inp.init THEN ProcessExit(0, "Starting initialization wizard...") /\ UNCHANGED loc
     ELSE IF inp.help THEN ProcessExit(0, "GitHub Coverage Reporter CLI") /\ UNCHANGED loc
     ELSE LET opts ==
                [coverageType |-> IF inp.names = <<>> THEN Undef ELSE Str(inp.names[1]),
                 addComments |-> IF "--no-comments" \in inp.flags THEN Bool(FALSE) ELSE Undef,
                 setStatusChecks |-> IF "--no-status" \in inp.flags THEN Bool(FALSE) ELSE Undef,
                 storeInS3 |-> IF "--no-s3" \in inp.flags THEN Bool(FALSE) ELSE Undef]
          IN  /\ loc' = [loc EXCEPT !.options = opts]
              /\ IF ~Truthy(opts.coverageType)
                 THEN ProcessExit(1, "No coverage type specified. Use --name=<type> to specify.")
                 ELSE /\ pc' = "loadConfig"
                      /\ log' = Append(log, "Running GitHub Coverage Reporter for:")
                      /\ UNCHANGED ret
  /\ CliFrame

\* bin/cli-run.js: the configuration is loaded, a failure only warns
CliLoadConfig ==
  /\ inp.script = "cli-run" /\ pc = "loadConfig"
  /\ loc' = [loc EXCEPT !.config = IF inp.configLoads THEN Str(".gcr.json") ELSE Null]
  /\ log' = Append(log, IF inp.configLoads THEN "Loaded configuration from .gcr.json"
                        ELSE "Falling back to environment variables for configuration")
  /\ pc' = "run"
  /\ UNCHANGED ret
  /\ CliFrame

\* bin/cli-run.js run(): construct, await reporter.run, print, exit
CliRun ==
  /\ inp.script = "cli-run" /\ pc = "run"
  /\ loc' = [loc EXCEPT !.ran = inp.outcome.at = "run"]
  /\ IF inp.outcome.done = "throw"
     THEN ProcessExit(1, "Error running coverage reporter:")
     ELSE IF ~IsFinite(inp.outcome.result.currentCoverage)
          \* currentCoverage.toFixed is not a function
          THEN ProcessExit(1, "Error running coverage reporter:")
          ELSE ProcessExit(0, "Coverage reporting completed successfully!")
  /\ CliFrame

\* coverage-report main(): required variables, options, the reporter
MainConfigure ==
  /\ inp.script = "coverage-report" /\ pc = "start"
  /\ IF inp.missingVars
     THEN ProcessExit(1, "Missing required environment variables:")
     ELSE IF inp.outcome.at = "constructor"
          THEN ProcessExit(1, "Fatal error in coverage reporter:")
          ELSE /\ pc' = "selectTypes"
               /\ UNCHANGED <<ret, log>>
  /\ loc' = [loc EXCEPT !.options = [configPath |-> Str("./.gcr.json")]]
  /\ CliFrame

\* coverage-report main(): the types named on the command line; with --all
\* the names come from an identifier the generated script may not define
MainSelectTypes ==
  /\ inp.script = "coverage-report" /\ pc = "selectTypes"
  /\ IF inp.all /\ inp.allTypes = Undef
     THEN ProcessExit(1, "Fatal error in coverage reporter:") /\ UNCHANGED loc
     ELSE LET typesToProcess == IF inp.all THEN inp.allTypes.items ELSE inp.names
          IN  /\ loc' = [loc EXCEPT !.typesToProcess = typesToProcess]
              /\ IF Len(typesToProcess) = 0
                 THEN ProcessExit(1, "No coverage types specified. Use --all or --name=type to specify coverage types.")
                 ELSE /\ pc' = "run"
                      /\ log' = Append(log, "Processing coverage for types:")
                      /\ UNCHANGED ret
  /\ CliFrame

\* coverage-report main(): await reporter.run inside its own try, whose catch
\* prints the error; main then returns and the process ends with code 0
MainRun ==
  /\ inp.script = "coverage-report" /\ pc = "run"
  /\ loc' = [loc EXCEPT !.ran = TRUE]
  /\ ret' = Num(0)
  /\ pc' = "exited"
  /\ log' = log \o
       <<IF inp.outcome.done = "throw"
         THEN IF Truthy(inp.outcome.coverageType) THEN "Error processing type coverage:"
              ELSE "Error processing coverage:"
         ELSE "coverage:",
         "Coverage reporting completed">>
  /\ CliFrame

NextCli ==
  \/ CliParseArgs
  \/ CliLoadConfig
  \/ CliRun
  \/ MainConfigure
  \/ MainSelectTypes
  \/ MainRun

SpecCli == InitCli /\ [][NextCli]_vars

\* the invocation asked for a report (neither the wizard nor the usage text)
AsksForReport == ~inp.init /\ ~inp.help

RunSucceeded == loc.ran /\ inp.outcome.done = "return"

RunRaised == loc.ran /\ inp.outcome.done = "throw"

TypeMissing ==
  IF inp.script = "cli-run" THEN inp.names = <<>>
  ELSE pc = "exited" /\ ~loc.ran /\ ~inp.missingVars /\ inp.outcome.at = "run"
       /\ ~(inp.all /\ inp.allTypes = Undef)

\* C23: an invocation that asks for a report exits with 0 only when the run
\* succeeded, and with 1 when the coverage type is missing or the run raised
\* an error, in both scripts.
C23_ExitCodes ==
  (pc = "exited" /\ AsksForReport) =>
     /\ ret = Num(0) => RunSucceeded
     /\ TypeMissing => ret = Num(1)
     /\ RunRaised => ret = Num(1)

\* the same for bin/cli-run.js alone
C23_CliRunExitCodes ==
  (pc = "exited" /\ AsksForReport /\ inp.script = "cli-run") =>
     /\ ret = Num(0) => RunSucceeded
     /\ TypeMissing => ret = Num(1)
     /\ RunRaised => ret = Num(1)
----------------------------------------------------------------------------
(* Branch specification: run is given a list of types by a reporter that   *)
(* was constructed with a coverage type of its own                         *)

TypeLists == {<<"backend">>, <<"frontend">>, <<"backend", "frontend">>}

BranchInputs ==
  {[addComments |-> a, setStatusChecks |-> s, storeInS3 |-> h, s3Helper |-> TRUE,
    coverageType |-> Str("backend"),
    coverageReporter |-> CoverageReporterNew(CovOpts(Undef)),
    targetBranch |-> "main", coverageData |-> Null,
    runOptions |-> [coverageTypes |-> Arr(ts), coverageType |-> Undef, addComment |-> Undef],
    branch |-> b] :
     a \in BOOLEAN, s \in BOOLEAN, h \in BOOLEAN, ts \in TypeLists, b \in Branches}

InitBranch ==
  /\ RunSpecFrame
  /\ store = JSONstringify(EmptyObject)

StartBranch == \E in \in BranchInputs : Start(1, in)

NextBranch == StartBranch \/ Step(1)

SpecBranch == InitBranch /\ [][NextBranch]_vars

ListedTypes(r) == inp[r].runOptions.coverageTypes.items

\* C24: a completed run has a current value for every type of the list it
\* was given, takes the multi-type branch exactly for a list of more than one
\* element, and processes a one-element list as the single-type case of that
\* element.
C24_ListedTypesProcessed ==
  pc[1] = "done" =>
     /\ \A i \in DOMAIN ListedTypes(1) :
          ListedTypes(1)[i] \in DOMAIN loc[1].currentCoverage
     /\ loc[1].multi <=> Len(ListedTypes(1)) > 1
     /\ Len(ListedTypes(1)) = 1 => loc[1].types = ListedTypes(1)
----------------------------------------------------------------------------
(* The remote calls of one run, in the order it issued them                 *)

\* the positions of the calls of an operation for a type
CallsAt(r, op, type) ==
  {i \in DOMAIN log[r] : log[r][i].op = op /\ log[r][i].type = type}

\* the positions of the calls of an operation
AllCallsAt(r, op) == {i \in DOMAIN log[r] : log[r][i].op = op}

\* C25: a delta status is posted only after the threshold status of the same
\* type was posted and accepted, only with the non-null descriptor
\* generateDiffStatusCheck gives, and the two posts carry the contexts
\* 'code-coverage-{type}' and 'code-coverage-{type}-delta'; a completed run
\* has posted the delta status of every type that has such a descriptor.
C25_ThresholdThenDelta ==
  inp[1] # Undef =>
    /\ \A j \in AllCallsAt(1, "delta") :
         LET e == log[1][j]
         IN  /\ \E i \in CallsAt(1, "status", e.type) : i < j /\ log[1][i].ok
             /\ \A i \in CallsAt(1, "status", e.type) : log[1][i].ok
             /\ e.check # Null
             /\ e.check = generateDiffStatusCheck(inp[1].coverageReporter,
                                                  loc[1].previousCoverage[e.type],
                                                  loc[1].currentCoverage[e.type], e.type)
             /\ e.check.context = <<"code-coverage-", e.type, "-delta">>
    /\ \A i \in AllCallsAt(1, "status") :
         /\ log[1][i].check.context = <<"code-coverage-", log[1][i].type>>
         /\ log[1][i].check = generateStatusChecks(inp[1].coverageReporter,
                                                   loc[1].currentCoverage[log[1][i].type],
                                                   log[1][i].type)
    /\ pc[1] = "done" =>
         \A i \in AllCallsAt(1, "status") :
           LET type == log[1][i].type
           IN  generateDiffStatusCheck(inp[1].coverageReporter,
                                       loc[1].previousCoverage[type],
                                       loc[1].currentCoverage[type], type) # Null
               => CallsAt(1, "delta", type) # {}

\* a type whose threshold status and then delta status were posted
C25_Witness ==
  \E i, j \in DOMAIN log[1] :
     /\ i < j
     /\ log[1][i].op = "status" /\ log[1][i].ok
     /\ log[1][j].op = "delta" /\ log[1][j].type = log[1][i].type
     /\ log[1][j].check.context = <<"code-coverage-", "backend", "-delta">>

BeforeRun(r) ==
  JSONparse(log[r][CHOOSE i \in AllCallsAt(r, "put") :
                      \A j \in AllCallsAt(r, "put") : i <= j].before)

\* every history read of the run succeeded
ReadsSucceeded(r) == \A i \in AllCallsAt(r, "get") : log[r][i].ok

\* C27: after a completed multi-type run that stores history and whose reads
\* all succeeded, the stored entry of the current branch holds the current
\* value of every processed type and every other branch's entry is as it was
\* before the run.
C27_BranchEntryHoldsEveryType ==
  (pc[1] = "done" /\ loc[1].multi /\ inp[1].storeInS3 /\ ReadsSucceeded(1)) =>
     LET doc == JSONparse(store)
         B == inp[1].branch
     IN  /\ B \in DOMAIN doc
         /\ \A i \in DOMAIN loc[1].types :
              LET t == loc[1].types[i]
              IN  t \in DOMAIN doc[B] /\ doc[B][t] = loc[1].currentCoverage[t]
         /\ DOMAIN doc \ {B} = DOMAIN BeforeRun(1) \ {B}
         /\ \A b \in DOMAIN doc \ {B} : doc[b] = BeforeRun(1)[b]

\* two types written under a branch next to another branch's entry
C27_Witness ==
  /\ pc[1] = "done" /\ loc[1].multi /\ inp[1].storeInS3 /\ ReadsSucceeded(1)
  /\ inp[1].branch = "feature"
  /\ "main" \in DOMAIN JSONparse(store)
  /\ DOMAIN JSONparse(store)["feature"] = {"backend", "frontend"}
  /\ JSONparse(store)["feature"]["backend"] # JSONparse(store)["feature"]["frontend"]
----------------------------------------------------------------------------
(* Reporter specification: a reporter is constructed from options, config  *)
(* file and environment, and then runs once                                *)

ReporterOptions ==
  UNION {{[github |-> gh, s3 |-> s3, coverage |-> Undef, fileName |-> Undef] @@ f :
            gh \in {Undef, GhObj(Str("opt-owner"), Undef),
                    [GhObj(Str("opt-owner"), Undef) EXCEPT !.currentBranch = Str("feature")]},
            s3 \in {Undef, Null, S3Obj(Str("opt-bucket"), Undef)},
            f \in [S -> {Bool(FALSE)}]} : S \in SUBSET FeatureKeys}

ReporterConfigFiles ==
  {Missing,
   [coverage |-> [types |-> CfgTypes, maxDiff |-> Undef], config |-> Undef, s3 |-> Undef,
    github |-> Undef, fileName |-> Undef, folderName |-> Undef, owner |-> Undef,
    repo |-> Undef, defaultTargetBranch |-> Undef]}

ReporterEnvs ==
  {[EnvOf(FALSE, FALSE) EXCEPT !.GITHUB_CURR_BRANCH = b] :
     b \in {Undef, Str("main"), Str("feature")}}

ReporterRunOptions ==
  {[coverageTypes |-> ts[1], coverageType |-> ts[2], addComment |-> Undef] :
     ts \in {<<Undef, Str("backend")>>, <<Arr(<<"backend", "frontend">>), Undef>>}}

\* a value used as a property key: obj[undefined] is obj['undefined']
KeyOf(x) == IF x = Undef THEN "undefined" ELSE x.v

InitReporter ==
  /\ options \in ReporterOptions
  /\ configFile \in ReporterConfigFiles
  /\ env \in ReporterEnvs
  /\ reporter = Undef
  /\ cr = Undef
  /\ call = NoCall
  /\ ret = Undef
  /\ files = NoFiles
  /\ store = JSONstringify([b \in {"main"} |-> [t \in {"backend"} |-> 80]])
  /\ inp = [r \in Runs |-> Undef]
  /\ pc = [r \in Runs |-> "idle"]
  /\ loc = [r \in Runs |-> IdleLoc]
  /\ log = [r \in Runs |-> <<>>]

\* reporter.run(null, runOptions) on the constructed reporter
StartReporter ==
  /\ reporter # Undef
  /\ \E ro \in ReporterRunOptions :
       Start(1, [addComments |-> Truthy(reporter.options.addComments),
                 setStatusChecks |-> Truthy(reporter.options.setStatusChecks),
                 storeInS3 |-> Truthy(reporter.options.storeInS3),
                 s3Helper |-> reporter.s3Helper # Null,
                 coverageType |-> Lookup(reporter.options, "coverageType"),
                 coverageReporter |-> reporter.coverageReporter,
                 targetBranch |-> KeyOf(reporter.githubHelper.targetBranch),
                 coverageData |-> Null,
                 runOptions |-> ro,
                 branch |-> KeyOf(env.GITHUB_CURR_BRANCH)])

NextReporter == Constructor \/ StartReporter \/ Step(1)

SpecReporter == InitReporter /\ [][NextReporter]_vars

\* C28: every history entry a run uploads is written under the reporter's
\* resolved currentBranch, the branch fetchPR looks the pull request up by.
C28_WritesUnderResolvedBranch ==
  \A i \in AllCallsAt(1, "put") :
     LET e == log[1][i]
         doc == JSONparse(e.body)
         B == KeyOf(reporter.githubHelper.currentBranch)
     IN  /\ B \in DOMAIN doc
         /\ e.type \in DOMAIN doc[B]
         /\ doc[B][e.type] = loc[1].currentCoverage[e.type]

\* C29: a reporter constructed with options.s3 null or undefined, without a
\* storeInS3 option and without a config file has no S3 helper and storeInS3
\* false, and its run issues no history read or write.
C29_NoStorageWithoutS3 ==
  (/\ reporter # Undef
   /\ ~Truthy(options.s3)
   /\ reporter.config = Null
   /\ "storeInS3" \notin DOMAIN options)
  => /\ reporter.s3Helper = Null
     /\ reporter.options.storeInS3 = Bool(FALSE)
     /\ AllCallsAt(1, "get") = {} /\ AllCallsAt(1, "put") = {}
----------------------------------------------------------------------------
(* Agreement specification: the status checks and the comment of one type, *)
(* computed from the same values as run computes them                      *)

InitAgree ==
  /\ EngineFrame
  /\ \E o \in CommentReporterOptions : cr = CoverageReporterNew(o)

\* setStatusChecks and addCoverageComment for one type
CallStatusAndComment ==
  /\ call = NoCall
  /\ \E coverageType \in CommentTypes, previousCoverage \in 0..MaxPct,
        currentCoverage \in 0..MaxPct :
       /\ call' = [op |-> "statusAndComment", coverageType |-> coverageType,
                   previousCoverage |-> previousCoverage,
                   currentCoverage |-> currentCoverage]
       /\ ret' = [statusCheck |-> generateStatusChecks(cr, currentCoverage, coverageType),
                  diffCheck |-> generateDiffStatusCheck(cr, previousCoverage,
                                                        currentCoverage, coverageType),
                  comment |-> generateCoverageComment(
                                cr,
                                [t \in {coverageType} |-> Num(previousCoverage)],
                                [t \in {coverageType} |-> Num(currentCoverage)],
                                <<coverageType>>)]
  /\ UNCHANGED <<options, configFile, env, reporter, cr, files, runVars>>

NextAgree == CallStatusAndComment

SpecAgree == InitAgree /\ [][NextAgree]_vars

\* C30: the row of a type shows the passing indicator exactly when the
\* threshold check passes and the diff check is null or passes.
C30_RowAgreesWithChecks ==
  call.op = "statusAndComment" =>
     (ret.comment.tableRows[1].status = PassSign
        <=> /\ ret.statusCheck.pass
            /\ (ret.diffCheck = Null \/ ret.diffCheck.pass))

\* the threshold is met but the drop is beyond the limit
C30_Witness ==
  /\ call.op = "statusAndComment"
  /\ ret.statusCheck.pass
  /\ ret.diffCheck # Null
  /\ ~ret.diffCheck.pass
  /\ ret.comment.tableRows[1].status = FailSign

====
